---- MODULE Spec2Model ----
(***************************************************************************)
(* VR Streamer (pc_app_cpp): the SPSC ring, the frame buffer pool, the     *)
(* broadcast server with its per-client writer, and the orchestrator's     *)
(* start/stop, as state machines translated from the C++ sources.          *)
(*                                                                         *)
(* Every atomic load, store, exchange or compare-exchange of the code is   *)
(* one step of the thread that executes it; the steps of different threads *)
(* interleave freely.                                                      *)
(***************************************************************************)
EXTENDS Integers, Sequences, FiniteSets, TLC

(***************************************************************************)
(* Bounds of the model.                                                    *)
(***************************************************************************)
\* the ring of SpecRing has capacity N = 2^RingBits
RingBits == 2
\* number of try_push calls the producer of SpecRing makes that are accepted
MaxItems == 6
\* pool_size of the pool of SpecPool
PoolSize == 2
\* number of acquire calls that find the free list empty (SpecPool)
MaxSynth == 3
\* number of handles (shared_ptr copies) to one buffer held outside the pool
MaxHandles == 2
\* each client's write_queue_ has capacity 2^WqBits in the model (16 in the code)
WqBits == 1
\* number of frames the capture source delivers (SpecServer)
MaxFrames == 3
\* number of frames the capture source delivers (SpecApp)
MaxStopFrames == 2
\* number of frames CaptureManager::capture returns (SpecCapture)
MaxDelivered == 2
\* number of capture calls that fail and count a dropped frame (SpecCapture)
MaxDropped == 1
\* the integers of clip_to_window have IntBits bits in the model (32 in the code)
IntBits == 6
\* width_ and height_ of the monitor (SpecClip)
MonitorSize == 12
\* how far outside the monitor an edge of the window can be (SpecClip)
MaxOutside == 2
\* the frames handed to VRFrameEncoder::encode are 1..MaxWidth wide and
\* 1..MaxHeight high (SpecEncoder)
MaxWidth == 20
MaxHeight == 3
\* number of update_config calls made while the encode thread runs (SpecReconfig)
MaxUpdates == 2

RECURSIVE Pow2(_)
Pow2(n) == IF n = 0 THEN 1 ELSE 2 * Pow2(n - 1)

VARIABLES
    \* ---- SPSCQueue<T, N> (spsc_queue.hpp) ----
    head_,          \* std::atomic<size_t> head_
    tail_,          \* std::atomic<size_t> tail_
    storage_,       \* std::array<T, N> storage_
    p_pc,           \* producer: position inside try_push
    p_tail,         \* producer: local `tail`
    p_next,         \* producer: local `next`
    p_item,         \* producer: the argument `item`
    p_ret,          \* producer: what the last try_push returned
    c_pc,           \* consumer: position inside try_pop
    c_head,         \* consumer: local `head`
    c_item,         \* consumer: the out-parameter `item`
    c_ret,          \* consumer: what the last try_pop returned
    pushed,         \* history: items accepted by try_push, in order
    popped,         \* history: items returned by try_pop, in order
    \* ---- FrameBufferPool (memory_pool.hpp) ----
    free_buffers_,  \* std::stack<BufferPtr> free_buffers_ (top = last element)
    in_use,         \* buffers handed out by acquire and not yet released
    synthesized,    \* number of buffers made by acquire on an empty free list
    pool_last,      \* the last pool call and what it did
    handles,        \* per buffer: the BufferPtr copies held outside the pool
    \* ---- StreamingServer and WebSocketSession (websocket_server.cpp) ----
    config_max_clients, \* config_.max_clients
    source_frames,  \* input: the number of frames the capture source delivers
    running_,       \* StreamingServer::running_
    accepting,      \* an async_accept of the acceptor is pending
    io_stopped,     \* io_context_.stop() was called
    sessions_,      \* the keys of the registry sessions_
    mtx_shared,     \* threads holding sessions_mutex_ shared
    mtx_unique,     \* the thread holding sessions_mutex_ exclusively, or "none"
    conn,           \* per connection: "none", "handshake", "up", "rejected", "failed"
    ws_open,        \* per session: ws_.is_open()
    closing_,       \* per session: closing_
    writing_,       \* per session: writing_
    write_queue_,   \* per session: write_queue_ (head, tail, storage)
    current_write_, \* per session: current_write_
    inflight,       \* per session: async_write calls whose handler has not run
    written,        \* per session, history: the frames handed to async_write
    frames_sent,    \* per session: info_.frames_sent
    io_pc,          \* per session: position of the handler running on its strand
    \* ---- VRStreamerApp (vr_streamer_app.cpp) ----
    streaming_,     \* streaming_
    stop_requested_,\* stop_requested_
    capture_queue_, \* capture_queue_ (Q1)
    frames_captured,\* stats_.frames_captured
    frames_encoded, \* stats_.frames_encoded
    stream,         \* history: the frames push_frame was called with, in order
    cap_pc,         \* capture thread: position in capture_loop
    stat_pc,        \* stats thread: position in stats_loop
    enc_pc,         \* encode thread: position in encode_loop / push_frame / send_frame
    enc_frame,      \* encode thread: the frame being pushed
    enc_c,          \* encode thread: the session send_frame runs on
    enc_todo,       \* encode thread: sessions the loop of push_frame has not visited
    enc_call,       \* history of the current push_frame: the sessions send_frame was
                    \* called on, those whose frame was dropped, those it was queued for
    stop_pc,        \* per caller of VRStreamerApp::stop(): its position
    stop_c,         \* per caller: the session StreamingServer::stop() is closing
    stop_todo,      \* per caller: sessions the loop of StreamingServer::stop() has not visited
    \* ---- DXGICapture / CaptureManager (dxgi_capture.cpp), VRStreamerApp::init ----
    platform_ok,    \* input: DuplicateOutput succeeds at this moment
    initialized_,   \* DXGICapture::initialized_
    duplication_,   \* DXGICapture::duplication_ is not null
    frame_id_,      \* DXGICapture::frame_id_
    recovery_attempts_,  \* CaptureManager::recovery_attempts_
    use_window_capture_, \* CaptureManager::use_window_capture_
    selected_window_,    \* CaptureManager::selected_window_.hwnd: "null" or a handle
    delivered,      \* history: the frame_id of every frame capture() returned
    cap_ret,        \* the result of the last call of CaptureManager::capture
    lost,           \* history: access was lost and no frame was returned since
    capture_,       \* VRStreamerApp::capture_ is not null
    app_initialized_,    \* VRStreamerApp::initialized_
    fatal,          \* history: the conditions met that make streaming impossible
    on_error_calls, \* history: the number of invocations of on_error_
    monitor_index_, \* DXGICapture::monitor_index_
    target_window_, \* DXGICapture::target_window_: "null" or the handle
    configured_monitor,  \* history: the index last passed to set_monitor (0 by init)
    frames_dropped, \* DXGICapture::stats_.frames_dropped
    cap_hr,         \* history: the outcome of AcquireNextFrame in the last call of
                    \* capture, "none" when the call did not reach it
    \* ---- DXGICapture::clip_to_window (dxgi_capture.cpp) ----
    window_rect_,   \* window_rect_, in desktop coordinates
    clipped_width_, \* clipped_width_
    clipped_height_,\* clipped_height_
    clip_ret,       \* the outcome of the last call of clip_to_window
    \* ---- VRFrameEncoder (stereo_processor.cpp), VRStreamerApp's setters ----
    config_encoder, \* VRStreamerApp::config_.encoder
    config_,        \* VRFrameEncoder::config_
    config_version, \* history: the number of update_config calls on the encoder
    encode_pc,      \* encode thread: position inside VRFrameEncoder::encode
    frame_in,       \* encode: the arguments width and height
    output_width,   \* encode: local output_width
    output_height,  \* encode: local output_height
    encode_width,   \* encode: local encode_width
    encode_height,  \* encode: local encode_height
    sampled,        \* the source columns and rows process_scaled copied from
    compressed,     \* what the last call handed to jpeg_encoder_->encode
    encode_reads,   \* history: the versions of config_ read during the call
    \* ---- WebSocketSession::send_ping ----
    pings,          \* history: per connection, the number of pings sent
    \* ---- StreamingServer::on_client_connected / on_client_disconnected ----
    client_events,  \* history: per connection, the callbacks made for its session, in order
    \* ---- SPSCQueue<T, 2> under strictly alternating calls ----
    queue2,         \* the ring: head_, tail_ and storage_
    alt_pc,         \* the caller: which call is next, and the position inside it
    alt_tail,       \* try_push: local tail
    alt_next,       \* try_push: local next
    alt_head,       \* try_pop: local head
    alt_in,         \* the argument of the last try_push
    alt_out,        \* the out-parameter of the last try_pop
    alt_ret,        \* what the last completed call returned
    \* ---- SPSCFrameQueue<T, N> (spsc_queue.hpp) ----
    slot_head_,     \* std::atomic<size_t> head_
    slot_tail_,     \* std::atomic<size_t> tail_
    slots_ready,    \* slots_[i].ready
    write_in_progress_, \* bool write_in_progress_
    w_pc,           \* producer: position inside commit_write
    w_tail,         \* producer: local tail of commit_write
    w_slot,         \* producer: the slot begin_write returned, not yet committed
    r_pc,           \* consumer: position inside peek_read or complete_read
    r_head,         \* consumer: local head
    r_slot,         \* consumer: the slot the last peek_read returned
    committed,      \* history: slots whose write was committed and not yet read
    slot_last,      \* history: the last call of the producer and what it returned
    \* ---- capture_loop and encode_loop (vr_streamer_app.cpp), DXGICapture::copy_to_cpu / release_frame ----
    fl_pc,          \* capture thread: position inside an iteration of capture_loop
    window_mode,    \* target_window_ is set
    row_pitch,      \* mapped.RowPitch of the staging texture
    frame,          \* capture_loop: the CapturedFrame frame
    dup_held,       \* the duplication has an acquired frame that was not released
    staging_mapped, \* the staging texture is mapped
    frame_seen,     \* history: a capture has returned a frame
    releases,       \* history: release_frame calls since the last frame was captured
    misuse,         \* history: platform calls made in a state that does not allow them
    buffer,         \* capture_loop: local buffer (0: null)
    buffers,        \* the Buffer objects: width, height, stride, size, capacity
    frame_pool_,    \* frame_pool_->free_buffers_ (top = last element)
    made,           \* history: the buffers that exist
    el_pc,          \* encode thread: position inside an iteration of encode_loop
    enc_buffer,     \* encode_loop: local buffer (0: null)
    frames_left     \* the number of frames the duplication still delivers

ringVars == <<head_, tail_, storage_, p_pc, p_tail, p_next, p_item, p_ret,
              c_pc, c_head, c_item, c_ret, pushed, popped>>
poolVars == <<free_buffers_, in_use, synthesized, pool_last, handles>>
srvVars == <<config_max_clients, source_frames, running_, accepting, io_stopped, sessions_,
             mtx_shared, mtx_unique, conn, ws_open, closing_, writing_,
             write_queue_, current_write_, inflight, written, frames_sent, io_pc>>
thrVars == <<streaming_, stop_requested_, capture_queue_, frames_captured,
             frames_encoded, stream, cap_pc, stat_pc, enc_pc, enc_frame,
             enc_c, enc_todo, enc_call, stop_pc, stop_c, stop_todo>>
\* thrVars without stop_pc
thrRest == <<streaming_, stop_requested_, capture_queue_, frames_captured,
             frames_encoded, stream, cap_pc, stat_pc, enc_pc, enc_frame,
             enc_c, enc_todo, enc_call, stop_c, stop_todo>>
appVars == <<srvVars, thrVars>>
capVars == <<platform_ok, initialized_, duplication_, frame_id_, recovery_attempts_,
             use_window_capture_, selected_window_, delivered, cap_ret, lost,
             capture_, app_initialized_, fatal, on_error_calls,
             monitor_index_, target_window_, configured_monitor, frames_dropped, cap_hr>>
\* the target of the capture
tgtVars == <<monitor_index_, target_window_, configured_monitor>>
clipVars == <<window_rect_, clipped_width_, clipped_height_, clip_ret>>
encVars == <<config_encoder, config_, config_version, encode_pc, frame_in,
             output_width, output_height, encode_width, encode_height,
             sampled, compressed, encode_reads>>
pingVars == <<pings>>
cbVars == <<client_events>>
altVars == <<queue2, alt_pc, alt_tail, alt_next, alt_head, alt_in, alt_out, alt_ret>>
slotVars == <<slot_head_, slot_tail_, slots_ready, write_in_progress_, w_pc, w_tail, w_slot, r_pc, r_head, r_slot, committed, slot_last>>
frameVars == <<fl_pc, window_mode, row_pitch, frame, dup_held, staging_mapped, frame_seen, releases, misuse, buffer, buffers, frame_pool_, made, el_pc, enc_buffer, frames_left>>
vars == <<ringVars, poolVars, appVars, capVars, clipVars, encVars, pingVars, cbVars, altVars, slotVars, frameVars>>

(***************************************************************************)
(* SPSCQueue<T, N>                                                         *)
(***************************************************************************)
CAPACITY == Pow2(RingBits)
MASK == CAPACITY - 1

\* x & MASK for a mask of the form 2^k - 1 and x >= 0
AndMask(x, mask) == x % (mask + 1)

\* the default-constructed element T{}
NoItem == 0

\* (i + 1) & MASK, lines 55, 73 and 99
NextIndex_mut(i, mask) == i
NextIndex(i, mask) == AndMask(i + 1, mask)

RingInit ==
    /\ head_ = 0
    /\ tail_ = 0
    /\ storage_ = [i \in 0..(CAPACITY - 1) |-> NoItem]
    /\ p_pc = "idle" /\ p_tail = 0 /\ p_next = 0 /\ p_item = NoItem /\ p_ret = "none"
    /\ c_pc = "idle" /\ c_head = 0 /\ c_item = NoItem /\ c_ret = "none"
    /\ pushed = <<>>
    /\ popped = <<>>

\* try_push, lines 72-73: tail = tail_.load(relaxed); next = (tail + 1) & MASK
try_push_load_tail ==
    /\ p_pc = "idle"
    /\ Len(pushed) < MaxItems
    /\ p_tail' = tail_
    /\ p_next' = NextIndex(tail_, MASK)
    /\ p_item' = Len(pushed) + 1
    /\ p_ret' = "pending"
    /\ p_pc' = "check"
    /\ UNCHANGED <<head_, tail_, storage_, c_pc, c_head, c_item, c_ret, pushed, popped>>
    /\ UNCHANGED <<poolVars, appVars, capVars, clipVars, encVars, pingVars, cbVars, altVars, slotVars, frameVars>>

\* the condition of line 75, on the value head_.load(acquire) returned
QueueIsFull_mut(next, head) == FALSE
QueueIsFull(next, head) == next = head

\* try_push, lines 75-78: if (next == head_.load(acquire)) return false
try_push_check ==
    /\ p_pc = "check"
    /\ IF QueueIsFull(p_next, head_)
       THEN p_pc' = "idle" /\ p_ret' = "false"
       ELSE p_pc' = "store" /\ p_ret' = p_ret
    /\ UNCHANGED <<head_, tail_, storage_, p_tail, p_next, p_item,
                   c_pc, c_head, c_item, c_ret, pushed, popped>>
    /\ UNCHANGED <<poolVars, appVars, capVars, clipVars, encVars, pingVars, cbVars, altVars, slotVars, frameVars>>

\* try_push, line 80: storage_[tail] = std::move(item)
try_push_store ==
    /\ p_pc = "store"
    /\ storage_' = [storage_ EXCEPT ![p_tail] = p_item]
    /\ p_pc' = "publish"
    /\ UNCHANGED <<head_, tail_, p_tail, p_next, p_item, p_ret,
                   c_pc, c_head, c_item, c_ret, pushed, popped>>
    /\ UNCHANGED <<poolVars, appVars, capVars, clipVars, encVars, pingVars, cbVars, altVars, slotVars, frameVars>>

\* try_push, lines 81-82: tail_.store(next, release); return true
try_push_publish ==
    /\ p_pc = "publish"
    /\ tail_' = p_next
    /\ p_ret' = "true"
    /\ pushed' = Append(pushed, p_item)
    /\ p_pc' = "idle"
    /\ UNCHANGED <<head_, storage_, p_tail, p_next, p_item,
                   c_pc, c_head, c_item, c_ret, popped>>
    /\ UNCHANGED <<poolVars, appVars, capVars, clipVars, encVars, pingVars, cbVars, altVars, slotVars, frameVars>>

\* try_pop, line 91: head = head_.load(relaxed)
try_pop_load_head ==
    /\ c_pc = "idle"
    /\ c_head' = head_
    /\ c_ret' = "pending"
    /\ c_pc' = "check"
    /\ UNCHANGED <<head_, tail_, storage_, p_pc, p_tail, p_next, p_item, p_ret,
                   c_item, pushed, popped>>
    /\ UNCHANGED <<poolVars, appVars, capVars, clipVars, encVars, pingVars, cbVars, altVars, slotVars, frameVars>>

\* the condition of line 93, on the value tail_.load(acquire) returned
QueueIsEmpty_mut(head, tail) == FALSE
QueueIsEmpty(head, tail) == head = tail

\* try_pop, lines 93-96: if (head == tail_.load(acquire)) return false
try_pop_check ==
    /\ c_pc = "check"
    /\ IF QueueIsEmpty(c_head, tail_)
       THEN c_pc' = "idle" /\ c_ret' = "false"
       ELSE c_pc' = "take" /\ c_ret' = c_ret
    /\ UNCHANGED <<head_, tail_, storage_, p_pc, p_tail, p_next, p_item, p_ret,
                   c_head, c_item, pushed, popped>>
    /\ UNCHANGED <<poolVars, appVars, capVars, clipVars, encVars, pingVars, cbVars, altVars, slotVars, frameVars>>

\* try_pop, line 98: item = std::move(storage_[head])
try_pop_take ==
    /\ c_pc = "take"
    /\ c_item' = storage_[c_head]
    /\ storage_' = [storage_ EXCEPT ![c_head] = NoItem]
    /\ c_pc' = "release"
    /\ UNCHANGED <<head_, tail_, p_pc, p_tail, p_next, p_item, p_ret,
                   c_head, c_ret, pushed, popped>>
    /\ UNCHANGED <<poolVars, appVars, capVars, clipVars, encVars, pingVars, cbVars, altVars, slotVars, frameVars>>


\* try_pop, lines 99-100: head_.store((head + 1) & MASK, release); return true
try_pop_release ==
    /\ c_pc = "release"
    /\ head_' = NextIndex(c_head, MASK)
    /\ c_ret' = "true"
    /\ popped' = Append(popped, c_item)
    /\ c_pc' = "idle"
    /\ UNCHANGED <<tail_, storage_, p_pc, p_tail, p_next, p_item, p_ret,
                   c_head, c_item, pushed>>
    /\ UNCHANGED <<poolVars, appVars, capVars, clipVars, encVars, pingVars, cbVars, altVars, slotVars, frameVars>>

\* size_approx(), lines 130-135
size_approx == AndMask(tail_ - head_ + CAPACITY, MASK)

\* full(), lines 140-145: next = (tail + 1) & MASK; return next == head_
full_mut == AndMask(tail_ + 2, MASK) = head_
full == QueueIsFull(NextIndex(tail_, MASK), head_)

RingNext ==
    \/ try_push_load_tail
    \/ try_push_check
    \/ try_push_store
    \/ try_push_publish
    \/ try_pop_load_head
    \/ try_pop_check
    \/ try_pop_take
    \/ try_pop_release

(***************************************************************************)
(* FrameBufferPool                                                         *)
(***************************************************************************)
\* buffers are named 1, 2, ...: 1..PoolSize are made by the constructor
Buffers == 1..(PoolSize + MaxSynth)

\* pool_last records the call (op), its buffer, whether the buffer came from
\* or went to the free list (kept), and free_count before the call; for a
\* release that directly follows the acquire of the same buffer, pair says
\* which branch that acquire took and before is free_count before the acquire
PoolInit ==
    /\ free_buffers_ = [i \in 1..PoolSize |-> i]
    /\ in_use = {}
    /\ synthesized = 0
    /\ pool_last = [op |-> "none", buf |-> 0, kept |-> FALSE, before |-> PoolSize,
                    pair |-> "none"]
    /\ handles = [b \in Buffers |-> 0]

\* acquire(), lines 78-84: the free list is empty, a new buffer is made
acquire_grow ==
    /\ free_buffers_ = <<>>
    /\ synthesized < MaxSynth
    /\ synthesized' = synthesized + 1
    /\ in_use' = in_use \cup {PoolSize + synthesized + 1}
    /\ pool_last' = [op |-> "acquire", buf |-> PoolSize + synthesized + 1, kept |-> FALSE,
                     before |-> Len(free_buffers_), pair |-> "none"]
    /\ handles' = [handles EXCEPT ![PoolSize + synthesized + 1] = 1]
    /\ UNCHANGED free_buffers_
    /\ UNCHANGED <<ringVars, appVars, capVars, clipVars, encVars, pingVars, cbVars, altVars, slotVars, frameVars>>

\* acquire(), lines 85-88: top(), pop(), reset()
acquire_pop ==
    /\ free_buffers_ # <<>>
    /\ in_use' = in_use \cup {free_buffers_[Len(free_buffers_)]}
    /\ handles[free_buffers_[Len(free_buffers_)]] < MaxHandles
    /\ pool_last' = [op |-> "acquire", buf |-> free_buffers_[Len(free_buffers_)], kept |-> TRUE,
                     before |-> Len(free_buffers_), pair |-> "none"]
    /\ handles' = [handles EXCEPT ![free_buffers_[Len(free_buffers_)]] = @ + 1]
    /\ free_buffers_' = SubSeq(free_buffers_, 1, Len(free_buffers_) - 1)
    /\ UNCHANGED synthesized
    /\ UNCHANGED <<ringVars, appVars, capVars, clipVars, encVars, pingVars, cbVars, altVars, slotVars, frameVars>>

\* the condition of line 99
ReleaseKeeps_mut(free_count, pool_size) == free_count * 2 < pool_size
ReleaseKeeps_upto(free_count, pool_size) == free_count <= pool_size * 2
ReleaseKeeps(free_count, pool_size) == free_count < pool_size * 2

\* what a release of buf records about the acquire it directly follows
PairOf(buf) ==
    IF pool_last.op = "acquire" /\ pool_last.buf = buf
    THEN [pair |-> IF pool_last.kept THEN "pop" ELSE "grow", before |-> pool_last.before]
    ELSE [pair |-> "none", before |-> Len(free_buffers_)]

\* release(buf), lines 94-105, for a buffer the caller holds a handle to
\* (the handle is moved into the call)
release(buf) ==
    /\ handles[buf] > 0
    /\ handles' = [handles EXCEPT ![buf] = @ - 1]
    /\ in_use' = in_use \ {buf}
    /\ IF ReleaseKeeps(Len(free_buffers_), PoolSize)
       THEN /\ free_buffers_' = Append(free_buffers_, buf)
            /\ pool_last' = [op |-> "release", buf |-> buf, kept |-> TRUE,
                             before |-> PairOf(buf).before, pair |-> PairOf(buf).pair]
       ELSE /\ free_buffers_' = free_buffers_
            /\ pool_last' = [op |-> "release", buf |-> buf, kept |-> FALSE,
                             before |-> PairOf(buf).before, pair |-> PairOf(buf).pair]
    /\ UNCHANGED synthesized
    /\ UNCHANGED <<ringVars, appVars, capVars, clipVars, encVars, pingVars, cbVars, altVars, slotVars, frameVars>>

\* free_count(), lines 115-119
free_count == Len(free_buffers_)
in_use_count == Cardinality(in_use)

PoolNext ==
    \/ acquire_grow
    \/ acquire_pop
    \/ \E buf \in Buffers : release(buf)

\* PooledBuffer::shared(), lines 181-184: the holder of a handle copies it
shared(buf) ==
    /\ handles[buf] > 0
    /\ handles[buf] < MaxHandles
    /\ handles' = [handles EXCEPT ![buf] = @ + 1]
    /\ UNCHANGED <<free_buffers_, in_use, synthesized, pool_last>>
    /\ UNCHANGED <<ringVars, appVars, capVars, clipVars, encVars, pingVars, cbVars, altVars, slotVars, frameVars>>

\* a holder destroys a handle without giving it to the pool (~shared_ptr)
handle_reset(buf) ==
    /\ handles[buf] > 0
    /\ handles' = [handles EXCEPT ![buf] = @ - 1]
    /\ in_use' = IF handles[buf] = 1 THEN in_use \ {buf} ELSE in_use
    /\ UNCHANGED <<free_buffers_, synthesized, pool_last>>
    /\ UNCHANGED <<ringVars, appVars, capVars, clipVars, encVars, pingVars, cbVars, altVars, slotVars, frameVars>>

\* the pool with holders that copy and destroy handles; acquire is called
\* while the free list is not empty
PoolSharedNext ==
    \/ acquire_pop
    \/ \E buf \in Buffers : release(buf)
    \/ \E buf \in Buffers : shared(buf)
    \/ \E buf \in Buffers : handle_reset(buf)

(***************************************************************************)
(* SPSCQueue as a value: try_push and try_pop of a ring whose producer and *)
(* consumer calls do not overlap each other's steps                        *)
(***************************************************************************)
EmptyRing(mask) == [head |-> 0, tail |-> 0, storage |-> [i \in 0..mask |-> NoItem]]

\* try_push would return true
CanPush(q, mask) == ~QueueIsFull(NextIndex(q.tail, mask), q.head)
\* the ring after a try_push that returned true
Pushed(q, item, mask) ==
    [q EXCEPT !.storage[q.tail] = item, !.tail = NextIndex(q.tail, mask)]
\* try_pop would return true
CanPop(q) == ~QueueIsEmpty(q.head, q.tail)
\* the item try_pop returns
Front(q) == q.storage[q.head]
\* the ring after a try_pop that returned true
Popped_mut(q, mask) == [q EXCEPT !.storage[q.head] = NoItem]
Popped(q, mask) ==
    [q EXCEPT !.storage[q.head] = NoItem, !.head = NextIndex(q.head, mask)]
\* size_approx() of a ring value
SizeOf(q, mask) == AndMask(q.tail - q.head + mask + 1, mask)

(***************************************************************************)
(* StreamingServer, WebSocketSession, VRStreamerApp                        *)
(***************************************************************************)
\* the connections that arrive at the acceptor, named in the order in which
\* its single outstanding async_accept hands them to on_accept
ConnOrder == <<"c1", "c2">>
Conns == {ConnOrder[i] : i \in 1..Len(ConnOrder)}
\* the threads that call VRStreamerApp::stop(): the key/signal handler and
\* the destructor that runs when main() returns
StopCallers == {"sig", "dtor"}

WQ_MASK == Pow2(WqBits) - 1
\* VRStreamerApp::QUEUE_SIZE
QUEUE_SIZE == 4
Q1_MASK == QUEUE_SIZE - 1

NoCall == [offered |-> {}, dropped |-> {}, queued |-> {}]

\* The state after init() and a start() that returned true: the server
\* listens, the three threads run, no connection has arrived yet.
AppInit ==
    /\ config_max_clients \in 1..Cardinality(Conns)
    /\ source_frames \in (0..MaxFrames) \cup {QUEUE_SIZE}
    /\ running_ = TRUE
    /\ accepting = TRUE
    /\ io_stopped = FALSE
    /\ sessions_ = {}
    /\ mtx_shared = {}
    /\ mtx_unique = "none"
    /\ conn = [c \in Conns |-> "none"]
    /\ ws_open = [c \in Conns |-> FALSE]
    /\ closing_ = [c \in Conns |-> FALSE]
    /\ writing_ = [c \in Conns |-> FALSE]
    /\ write_queue_ = [c \in Conns |-> EmptyRing(WQ_MASK)]
    /\ current_write_ = [c \in Conns |-> NoItem]
    /\ inflight = [c \in Conns |-> 0]
    /\ written = [c \in Conns |-> <<>>]
    /\ frames_sent = [c \in Conns |-> 0]
    /\ io_pc = [c \in Conns |-> "idle"]
    /\ streaming_ = TRUE
    /\ stop_requested_ = FALSE
    /\ capture_queue_ = EmptyRing(Q1_MASK)
    /\ frames_captured = 0
    /\ frames_encoded = 0
    /\ stream = <<>>
    /\ cap_pc = "loop"
    /\ stat_pc = "loop"
    /\ enc_pc = "loop"
    /\ enc_frame = NoItem
    /\ enc_c = "none"
    /\ enc_todo = {}
    /\ enc_call = NoCall
    /\ stop_pc = [t \in StopCallers |-> "idle"]
    /\ stop_c = [t \in StopCallers |-> "none"]
    /\ stop_todo = [t \in StopCallers |-> {}]

\* The state after construction, before init(): the server does not listen and
\* no thread was started.
AppBoot ==
    /\ config_max_clients = 1
    /\ source_frames = 0
    /\ running_ = FALSE
    /\ accepting = FALSE
    /\ io_stopped = FALSE
    /\ sessions_ = {}
    /\ mtx_shared = {}
    /\ mtx_unique = "none"
    /\ conn = [c \in Conns |-> "none"]
    /\ ws_open = [c \in Conns |-> FALSE]
    /\ closing_ = [c \in Conns |-> FALSE]
    /\ writing_ = [c \in Conns |-> FALSE]
    /\ write_queue_ = [c \in Conns |-> EmptyRing(WQ_MASK)]
    /\ current_write_ = [c \in Conns |-> NoItem]
    /\ inflight = [c \in Conns |-> 0]
    /\ written = [c \in Conns |-> <<>>]
    /\ frames_sent = [c \in Conns |-> 0]
    /\ io_pc = [c \in Conns |-> "idle"]
    /\ streaming_ = FALSE
    /\ stop_requested_ = FALSE
    /\ capture_queue_ = EmptyRing(Q1_MASK)
    /\ frames_captured = 0
    /\ frames_encoded = 0
    /\ stream = <<>>
    /\ cap_pc = "none"
    /\ stat_pc = "none"
    /\ enc_pc = "none"
    /\ enc_frame = NoItem
    /\ enc_c = "none"
    /\ enc_todo = {}
    /\ enc_call = NoCall
    /\ stop_pc = [t \in StopCallers |-> "idle"]
    /\ stop_c = [t \in StopCallers |-> "none"]
    /\ stop_todo = [t \in StopCallers |-> {}]

\* sessions_mutex_ can be locked exclusively / shared by another thread
MutexFree == mtx_unique = "none" /\ mtx_shared = {}
MutexNoWriter == mtx_unique = "none"

\* ---------------------------------------------------------------- accept
\* the test of line 350, on client_count()
BelowMaxClients(count, max) == count < max

\* StreamingServer::on_accept, lines 338-368, for an arriving connection c
server_on_accept(c) ==
    /\ accepting /\ ~io_stopped
    /\ conn[c] = "none"
    /\ \E i \in 1..Len(ConnOrder) :
          ConnOrder[i] = c /\ \A j \in 1..(i - 1) : conn[ConnOrder[j]] # "none"
    /\ MutexNoWriter
    /\ conn' = [conn EXCEPT ![c] =
                  IF BelowMaxClients(Cardinality(sessions_), config_max_clients)
                  THEN "handshake" ELSE "rejected"]
    /\ accepting' = running_
    /\ UNCHANGED <<config_max_clients, source_frames, running_, io_stopped, sessions_, mtx_shared,
                   mtx_unique, ws_open, closing_, writing_, write_queue_,
                   current_write_, inflight, written, frames_sent, io_pc>>
    /\ UNCHANGED <<ringVars, poolVars, thrVars, capVars, clipVars, encVars, pingVars, cbVars, altVars, slotVars, frameVars>>

\* WebSocketSession::on_accept, lines 70-86, with ec set: the session is dropped
session_on_accept_fail(c) ==
    /\ conn[c] = "handshake" /\ ~io_stopped
    /\ conn' = [conn EXCEPT ![c] = "failed"]
    /\ UNCHANGED <<config_max_clients, source_frames, running_, accepting, io_stopped, sessions_,
                   mtx_shared, mtx_unique, ws_open, closing_, writing_, write_queue_,
                   current_write_, inflight, written, frames_sent, io_pc>>
    /\ UNCHANGED <<ringVars, poolVars, thrVars, capVars, clipVars, encVars, pingVars, cbVars, altVars, slotVars, frameVars>>

\* WebSocketSession::on_accept, lines 70-86, without error: register_session
\* (lines 405-412), on_client_connected, do_read
session_on_accept(c) ==
    /\ conn[c] = "handshake" /\ ~io_stopped
    /\ MutexFree
    /\ sessions_' = sessions_ \cup {c}
    /\ conn' = [conn EXCEPT ![c] = "up"]
    /\ ws_open' = [ws_open EXCEPT ![c] = TRUE]
    /\ client_events' = [client_events EXCEPT ![c] = Append(@, "connected")]
    /\ UNCHANGED <<config_max_clients, source_frames, running_, accepting, io_stopped,
                   mtx_shared, mtx_unique, closing_, writing_, write_queue_,
                   current_write_, inflight, written, frames_sent, io_pc>>
    /\ UNCHANGED <<ringVars, poolVars, thrVars, capVars, clipVars, encVars, pingVars, altVars, slotVars, frameVars>>

\* WebSocketSession::on_read, lines 95-100: the peer closed; the stream is no
\* longer open and no further read is started
on_read_closed(c) ==
    /\ conn[c] = "up" /\ ws_open[c] /\ ~io_stopped
    /\ io_pc[c] = "idle"
    /\ ws_open' = [ws_open EXCEPT ![c] = FALSE]
    /\ UNCHANGED <<config_max_clients, source_frames, running_, accepting, io_stopped, sessions_,
                   mtx_shared, mtx_unique, conn, closing_, writing_, write_queue_,
                   current_write_, inflight, written, frames_sent, io_pc>>
    /\ UNCHANGED <<ringVars, poolVars, thrVars, capVars, clipVars, encVars, pingVars, cbVars, altVars, slotVars, frameVars>>

\* ---------------------------------------------------------------- do_write
\* do_write, lines 140-144
DoWriteClosing(c) == closing_[c]

\* do_write, lines 147-155, when try_pop returned true: async_write starts
DoWriteStart(c) ==
    /\ write_queue_' = [write_queue_ EXCEPT ![c] = Popped(write_queue_[c], WQ_MASK)]
    /\ current_write_' = [current_write_ EXCEPT ![c] = Front(write_queue_[c])]
    /\ written' = [written EXCEPT ![c] = Append(written[c], Front(write_queue_[c]))]
    /\ inflight' = [inflight EXCEPT ![c] = inflight[c] + 1]

\* ---------------------------------------------------------------- I/O strand
\* on_write, lines 158-179, without error, up to the call of do_write
on_write_ok(c) ==
    /\ io_pc[c] = "idle" /\ inflight[c] > 0 /\ ~io_stopped
    /\ inflight' = [inflight EXCEPT ![c] = inflight[c] - 1]
    /\ frames_sent' = [frames_sent EXCEPT ![c] = frames_sent[c] + 1]
    /\ current_write_' = [current_write_ EXCEPT ![c] = NoItem]
    /\ io_pc' = [io_pc EXCEPT ![c] = "dw_closing"]
    /\ UNCHANGED <<config_max_clients, source_frames, running_, accepting, io_stopped, sessions_,
                   mtx_shared, mtx_unique, conn, ws_open, closing_, writing_,
                   write_queue_, written>>
    /\ UNCHANGED <<ringVars, poolVars, thrVars, capVars, clipVars, encVars, pingVars, cbVars, altVars, slotVars, frameVars>>

\* on_write, lines 160-166, with ec set: writing_.store(false), then close()
on_write_error(c) ==
    /\ io_pc[c] = "idle" /\ inflight[c] > 0 /\ ~io_stopped
    /\ inflight' = [inflight EXCEPT ![c] = inflight[c] - 1]
    /\ writing_' = [writing_ EXCEPT ![c] = FALSE]
    /\ io_pc' = [io_pc EXCEPT ![c] = "cl_exchange"]
    /\ UNCHANGED <<config_max_clients, source_frames, running_, accepting, io_stopped, sessions_,
                   mtx_shared, mtx_unique, conn, ws_open, closing_,
                   write_queue_, current_write_, written, frames_sent>>
    /\ UNCHANGED <<ringVars, poolVars, thrVars, capVars, clipVars, encVars, pingVars, cbVars, altVars, slotVars, frameVars>>

\* do_write called from on_write, lines 140-144
io_do_write_closing(c) ==
    /\ io_pc[c] = "dw_closing"
    /\ IF DoWriteClosing(c)
       THEN /\ writing_' = [writing_ EXCEPT ![c] = FALSE]
            /\ io_pc' = [io_pc EXCEPT ![c] = "idle"]
       ELSE /\ writing_' = writing_
            /\ io_pc' = [io_pc EXCEPT ![c] = "dw_pop"]
    /\ UNCHANGED <<config_max_clients, source_frames, running_, accepting, io_stopped, sessions_,
                   mtx_shared, mtx_unique, conn, ws_open, closing_,
                   write_queue_, current_write_, inflight, written, frames_sent>>
    /\ UNCHANGED <<ringVars, poolVars, thrVars, capVars, clipVars, encVars, pingVars, cbVars, altVars, slotVars, frameVars>>

\* do_write called from on_write, lines 147-155
io_do_write_pop(c) ==
    /\ io_pc[c] = "dw_pop"
    /\ IF CanPop(write_queue_[c])
       THEN /\ DoWriteStart(c)
            /\ io_pc' = [io_pc EXCEPT ![c] = "idle"]
       ELSE /\ UNCHANGED <<write_queue_, current_write_, written, inflight>>
            /\ io_pc' = [io_pc EXCEPT ![c] = "dw_clear"]
    /\ UNCHANGED <<config_max_clients, source_frames, running_, accepting, io_stopped, sessions_,
                   mtx_shared, mtx_unique, conn, ws_open, closing_, writing_,
                   frames_sent>>
    /\ UNCHANGED <<ringVars, poolVars, thrVars, capVars, clipVars, encVars, pingVars, cbVars, altVars, slotVars, frameVars>>

\* do_write called from on_write, lines 149-150: writing_.store(false)
io_do_write_clear(c) ==
    /\ io_pc[c] = "dw_clear"
    /\ writing_' = [writing_ EXCEPT ![c] = FALSE]
    /\ io_pc' = [io_pc EXCEPT ![c] = "idle"]
    /\ UNCHANGED <<config_max_clients, source_frames, running_, accepting, io_stopped, sessions_,
                   mtx_shared, mtx_unique, conn, ws_open, closing_,
                   write_queue_, current_write_, inflight, written, frames_sent>>
    /\ UNCHANGED <<ringVars, poolVars, thrVars, capVars, clipVars, encVars, pingVars, cbVars, altVars, slotVars, frameVars>>

\* unregister_session, line 417: sessions_.erase(id)
Erase_mut(registry, id) == {}
Erase(registry, id) == registry \ {id}

\* close(), line 183: what closing_.exchange(true) returns
CloseExchange_mut(c) == FALSE
CloseExchange(c) == closing_[c]

\* close() called from on_write, lines 183-189: closing_.exchange(true), ws_.close
io_close_exchange(c) ==
    /\ io_pc[c] = "cl_exchange"
    /\ IF CloseExchange(c)
       THEN /\ UNCHANGED <<closing_, ws_open>>
            /\ io_pc' = [io_pc EXCEPT ![c] = "idle"]
       ELSE /\ closing_' = [closing_ EXCEPT ![c] = TRUE]
            /\ ws_open' = [ws_open EXCEPT ![c] = FALSE]
            /\ io_pc' = [io_pc EXCEPT ![c] = "cl_unregister"]
    /\ UNCHANGED <<config_max_clients, source_frames, running_, accepting, io_stopped, sessions_,
                   mtx_shared, mtx_unique, conn, writing_,
                   write_queue_, current_write_, inflight, written, frames_sent>>
    /\ UNCHANGED <<ringVars, poolVars, thrVars, capVars, clipVars, encVars, pingVars, cbVars, altVars, slotVars, frameVars>>

\* close() called from on_write, lines 191-192: unregister_session (lines
\* 414-421) under the exclusive lock, then on_client_disconnected
io_close_unregister(c) ==
    /\ io_pc[c] = "cl_unregister"
    /\ MutexFree
    /\ sessions_' = Erase(sessions_, c)
    /\ client_events' = [client_events EXCEPT ![c] = Append(@, "disconnected")]
    /\ io_pc' = [io_pc EXCEPT ![c] = "idle"]
    /\ UNCHANGED <<config_max_clients, source_frames, running_, accepting, io_stopped,
                   mtx_shared, mtx_unique, conn, ws_open, closing_, writing_,
                   write_queue_, current_write_, inflight, written, frames_sent>>
    /\ UNCHANGED <<ringVars, poolVars, thrVars, capVars, clipVars, encVars, pingVars, altVars, slotVars, frameVars>>

\* ---------------------------------------------------------------- capture thread
\* capture_loop, lines 182-256: the test of stop_requested_ and one iteration.
\* The frame carries the id the capture source gave it; a full Q1 drops it
\* (lines 229-233), and frames_captured counts it all the same (line 240).
capture_loop ==
    /\ cap_pc = "loop"
    /\ IF stop_requested_
       THEN /\ cap_pc' = "exited"
            /\ UNCHANGED <<capture_queue_, frames_captured>>
       ELSE /\ cap_pc' = cap_pc
            /\ frames_captured < source_frames
            /\ capture_queue_' =
                    IF CanPush(capture_queue_, Q1_MASK)
                    THEN Pushed(capture_queue_, frames_captured + 1, Q1_MASK)
                    ELSE capture_queue_
            /\ frames_captured' = frames_captured + 1
    /\ UNCHANGED <<streaming_, stop_requested_,
                   frames_encoded, stream, stat_pc, enc_pc, enc_frame,
                   enc_c, enc_todo, enc_call, stop_pc, stop_c, stop_todo>>
    /\ UNCHANGED <<ringVars, poolVars, srvVars, capVars, clipVars, encVars, pingVars, cbVars, altVars, slotVars, frameVars>>

\* capture_loop at the grain of its two shared effects: lines 182-233, the test
\* of stop_requested_ and one iteration up to the hand-off to capture_queue_
capture_loop_push ==
    /\ cap_pc = "loop"
    /\ IF stop_requested_
       THEN /\ cap_pc' = "exited"
            /\ UNCHANGED capture_queue_
       ELSE /\ cap_pc' = "stats"
            /\ frames_captured < source_frames
            /\ capture_queue_' =
                    IF CanPush(capture_queue_, Q1_MASK)
                    THEN Pushed(capture_queue_, frames_captured + 1, Q1_MASK)
                    ELSE capture_queue_
    /\ UNCHANGED <<streaming_, stop_requested_, frames_captured,
                   frames_encoded, stream, stat_pc, enc_pc, enc_frame,
                   enc_c, enc_todo, enc_call, stop_pc, stop_c, stop_todo>>
    /\ UNCHANGED <<ringVars, poolVars, srvVars, capVars, clipVars, encVars, pingVars, cbVars, altVars, slotVars, frameVars>>

\* capture_loop, lines 235-243: stats_.frames_captured++ under stats_mutex_,
\* after the frame was handed over (or dropped)
capture_loop_stats ==
    /\ cap_pc = "stats"
    /\ frames_captured' = frames_captured + 1
    /\ cap_pc' = "loop"
    /\ UNCHANGED <<streaming_, stop_requested_, capture_queue_,
                   frames_encoded, stream, stat_pc, enc_pc, enc_frame,
                   enc_c, enc_todo, enc_call, stop_pc, stop_c, stop_todo>>
    /\ UNCHANGED <<ringVars, poolVars, srvVars, capVars, clipVars, encVars, pingVars, cbVars, altVars, slotVars, frameVars>>

\* ---------------------------------------------------------------- stats thread
\* stats_loop, lines 331-359: the thread leaves its loop once it reads
\* stop_requested_; an iteration changes nothing the model holds
stats_loop ==
    /\ stat_pc = "loop"
    /\ stop_requested_
    /\ stat_pc' = "exited"
    /\ UNCHANGED <<streaming_, stop_requested_, capture_queue_, frames_captured,
                   frames_encoded, stream, cap_pc, enc_pc, enc_frame,
                   enc_c, enc_todo, enc_call, stop_pc, stop_c, stop_todo>>
    /\ UNCHANGED <<ringVars, poolVars, srvVars, capVars, clipVars, encVars, pingVars, cbVars, altVars, slotVars, frameVars>>

\* ---------------------------------------------------------------- encode thread
\* encode_loop, line 268: while (!stop_requested_.load())
encode_loop_check ==
    /\ enc_pc = "loop"
    /\ enc_pc' = IF stop_requested_ THEN "exited" ELSE "pop"
    /\ UNCHANGED <<streaming_, stop_requested_, capture_queue_, frames_captured,
                   frames_encoded, stream, cap_pc, stat_pc, enc_frame,
                   enc_c, enc_todo, enc_call, stop_pc, stop_c, stop_todo>>
    /\ UNCHANGED <<ringVars, poolVars, srvVars, capVars, clipVars, encVars, pingVars, cbVars, altVars, slotVars, frameVars>>

\* encode_loop, lines 271-308: try_pop of Q1, encode, and the call of
\* push_frame (an encode that returns 0 skips the frame, lines 297-300)
encode_loop_pop ==
    /\ enc_pc = "pop"
    /\ IF ~CanPop(capture_queue_)
       THEN /\ enc_pc' = "loop"
            /\ UNCHANGED <<capture_queue_, enc_frame, stream>>
       ELSE /\ capture_queue_' = Popped(capture_queue_, Q1_MASK)
            /\ \E encoded \in BOOLEAN :
                 IF encoded
                 THEN /\ enc_frame' = Front(capture_queue_)
                      /\ stream' = Append(stream, Front(capture_queue_))
                      /\ enc_pc' = "push_lock"
                 ELSE /\ UNCHANGED <<enc_frame, stream>>
                      /\ enc_pc' = "loop"
    /\ UNCHANGED <<streaming_, stop_requested_, frames_captured,
                   frames_encoded, cap_pc, stat_pc,
                   enc_c, enc_todo, enc_call, stop_pc, stop_c, stop_todo>>
    /\ UNCHANGED <<ringVars, poolVars, srvVars, capVars, clipVars, encVars, pingVars, cbVars, altVars, slotVars, frameVars>>

\* push_frame, line 398: std::shared_lock lock(sessions_mutex_)
push_frame_lock ==
    /\ enc_pc = "push_lock"
    /\ MutexNoWriter
    /\ mtx_shared' = mtx_shared \cup {"enc"}
    /\ enc_todo' = sessions_
    /\ enc_call' = NoCall
    /\ enc_pc' = "iter"
    /\ UNCHANGED <<config_max_clients, source_frames, running_, accepting, io_stopped, sessions_,
                   mtx_unique, conn, ws_open, closing_, writing_, write_queue_,
                   current_write_, inflight, written, frames_sent, io_pc>>
    /\ UNCHANGED <<streaming_, stop_requested_, capture_queue_, frames_captured,
                   frames_encoded, stream, cap_pc, stat_pc, enc_frame,
                   enc_c, stop_pc, stop_c, stop_todo>>
    /\ UNCHANGED <<ringVars, poolVars, capVars, clipVars, encVars, pingVars, cbVars, altVars, slotVars, frameVars>>

\* the sessions the loop of push_frame (lines 399-402) still visits after
\* send_frame returned for c
RestOfLoop_mut(todo, c, dropped) == IF dropped THEN {} ELSE todo \ {c}
RestOfLoop_retry(todo, c, dropped) == IF dropped THEN todo ELSE todo \ {c}
RestOfLoop(todo, c, dropped) == todo \ {c}

\* send_frame, line 118
SendFrameSkips(c) == closing_[c] \/ ~ws_open[c]

\* push_frame, lines 399-401, and send_frame, lines 118-121
send_frame_check(c) ==
    /\ enc_pc = "iter"
    /\ c \in enc_todo
    /\ enc_call' = [enc_call EXCEPT !.offered = @ \cup {c}]
    /\ IF SendFrameSkips(c)
       THEN /\ enc_todo' = RestOfLoop(enc_todo, c, FALSE)
            /\ enc_c' = "none"
            /\ enc_pc' = "iter"
       ELSE /\ enc_todo' = enc_todo
            /\ enc_c' = c
            /\ enc_pc' = "sf_push"
    /\ UNCHANGED <<streaming_, stop_requested_, capture_queue_, frames_captured,
                   frames_encoded, stream, cap_pc, stat_pc, enc_frame,
                   stop_pc, stop_c, stop_todo>>
    /\ UNCHANGED <<ringVars, poolVars, srvVars, capVars, clipVars, encVars, pingVars, cbVars, altVars, slotVars, frameVars>>

\* send_frame, lines 124-128: try_push on the session's write_queue_
send_frame_push ==
    /\ enc_pc = "sf_push"
    /\ IF CanPush(write_queue_[enc_c], WQ_MASK)
       THEN /\ write_queue_' = [write_queue_ EXCEPT
                                  ![enc_c] = Pushed(write_queue_[enc_c], enc_frame, WQ_MASK)]
            /\ enc_call' = [enc_call EXCEPT !.queued = @ \cup {enc_c}]
            /\ enc_todo' = enc_todo
            /\ enc_c' = enc_c
            /\ enc_pc' = "sf_cas"
       ELSE /\ write_queue_' = write_queue_
            /\ enc_call' = [enc_call EXCEPT !.dropped = @ \cup {enc_c}]
            /\ enc_todo' = RestOfLoop(enc_todo, enc_c, TRUE)
            /\ enc_c' = "none"
            /\ enc_pc' = "iter"
    /\ UNCHANGED <<config_max_clients, source_frames, running_, accepting, io_stopped, sessions_,
                   mtx_shared, mtx_unique, conn, ws_open, closing_, writing_,
                   current_write_, inflight, written, frames_sent, io_pc>>
    /\ UNCHANGED <<streaming_, stop_requested_, capture_queue_, frames_captured,
                   frames_encoded, stream, cap_pc, stat_pc, enc_frame,
                   stop_pc, stop_c, stop_todo>>
    /\ UNCHANGED <<ringVars, poolVars, capVars, clipVars, encVars, pingVars, cbVars, altVars, slotVars, frameVars>>

\* compare_exchange_strong(expected, desired) succeeds
CompareExchange_mut(current, expected) == TRUE
CompareExchange(current, expected) == current = expected

\* send_frame, lines 131-135: writing_.compare_exchange_strong(false, true)
send_frame_cas ==
    /\ enc_pc = "sf_cas"
    /\ IF CompareExchange(writing_[enc_c], FALSE)
       THEN /\ writing_' = [writing_ EXCEPT ![enc_c] = TRUE]
            /\ enc_todo' = enc_todo
            /\ enc_c' = enc_c
            /\ enc_pc' = "dw_closing"
       ELSE /\ writing_' = writing_
            /\ enc_todo' = RestOfLoop(enc_todo, enc_c, FALSE)
            /\ enc_c' = "none"
            /\ enc_pc' = "iter"
    /\ UNCHANGED <<config_max_clients, source_frames, running_, accepting, io_stopped, sessions_,
                   mtx_shared, mtx_unique, conn, ws_open, closing_, write_queue_,
                   current_write_, inflight, written, frames_sent, io_pc>>
    /\ UNCHANGED <<streaming_, stop_requested_, capture_queue_, frames_captured,
                   frames_encoded, stream, cap_pc, stat_pc, enc_frame,
                   enc_call, stop_pc, stop_c, stop_todo>>
    /\ UNCHANGED <<ringVars, poolVars, capVars, clipVars, encVars, pingVars, cbVars, altVars, slotVars, frameVars>>

\* do_write called from send_frame, lines 140-144
enc_do_write_closing ==
    /\ enc_pc = "dw_closing"
    /\ IF DoWriteClosing(enc_c)
       THEN /\ writing_' = [writing_ EXCEPT ![enc_c] = FALSE]
            /\ enc_todo' = RestOfLoop(enc_todo, enc_c, FALSE)
            /\ enc_c' = "none"
            /\ enc_pc' = "iter"
       ELSE /\ writing_' = writing_
            /\ enc_todo' = enc_todo
            /\ enc_c' = enc_c
            /\ enc_pc' = "dw_pop"
    /\ UNCHANGED <<config_max_clients, source_frames, running_, accepting, io_stopped, sessions_,
                   mtx_shared, mtx_unique, conn, ws_open, closing_, write_queue_,
                   current_write_, inflight, written, frames_sent, io_pc>>
    /\ UNCHANGED <<streaming_, stop_requested_, capture_queue_, frames_captured,
                   frames_encoded, stream, cap_pc, stat_pc, enc_frame,
                   enc_call, stop_pc, stop_c, stop_todo>>
    /\ UNCHANGED <<ringVars, poolVars, capVars, clipVars, encVars, pingVars, cbVars, altVars, slotVars, frameVars>>

\* do_write called from send_frame, lines 147-155
enc_do_write_pop ==
    /\ enc_pc = "dw_pop"
    /\ IF CanPop(write_queue_[enc_c])
       THEN /\ DoWriteStart(enc_c)
            /\ enc_todo' = RestOfLoop(enc_todo, enc_c, FALSE)
            /\ enc_c' = "none"
            /\ enc_pc' = "iter"
       ELSE /\ UNCHANGED <<write_queue_, current_write_, written, inflight>>
            /\ enc_todo' = enc_todo
            /\ enc_c' = enc_c
            /\ enc_pc' = "dw_clear"
    /\ UNCHANGED <<config_max_clients, source_frames, running_, accepting, io_stopped, sessions_,
                   mtx_shared, mtx_unique, conn, ws_open, closing_, writing_,
                   frames_sent, io_pc>>
    /\ UNCHANGED <<streaming_, stop_requested_, capture_queue_, frames_captured,
                   frames_encoded, stream, cap_pc, stat_pc, enc_frame,
                   enc_call, stop_pc, stop_c, stop_todo>>
    /\ UNCHANGED <<ringVars, poolVars, capVars, clipVars, encVars, pingVars, cbVars, altVars, slotVars, frameVars>>

\* do_write called from send_frame, lines 149-150: writing_.store(false)
enc_do_write_clear ==
    /\ enc_pc = "dw_clear"
    /\ writing_' = [writing_ EXCEPT ![enc_c] = FALSE]
    /\ enc_todo' = RestOfLoop(enc_todo, enc_c, FALSE)
    /\ enc_c' = "none"
    /\ enc_pc' = "iter"
    /\ UNCHANGED <<config_max_clients, source_frames, running_, accepting, io_stopped, sessions_,
                   mtx_shared, mtx_unique, conn, ws_open, closing_, write_queue_,
                   current_write_, inflight, written, frames_sent, io_pc>>
    /\ UNCHANGED <<streaming_, stop_requested_, capture_queue_, frames_captured,
                   frames_encoded, stream, cap_pc, stat_pc, enc_frame,
                   enc_call, stop_pc, stop_c, stop_todo>>
    /\ UNCHANGED <<ringVars, poolVars, capVars, clipVars, encVars, pingVars, cbVars, altVars, slotVars, frameVars>>

\* push_frame, line 403: the loop is over, the shared lock is released;
\* encode_loop, lines 311-321: frames_encoded++
push_frame_unlock ==
    /\ enc_pc = "iter"
    /\ enc_todo = {}
    /\ mtx_shared' = mtx_shared \ {"enc"}
    /\ frames_encoded' = frames_encoded + 1
    /\ enc_frame' = NoItem
    /\ enc_call' = NoCall
    /\ enc_pc' = "loop"
    /\ UNCHANGED <<config_max_clients, source_frames, running_, accepting, io_stopped, sessions_,
                   mtx_unique, conn, ws_open, closing_, writing_, write_queue_,
                   current_write_, inflight, written, frames_sent, io_pc>>
    /\ UNCHANGED <<streaming_, stop_requested_, capture_queue_, frames_captured,
                   stream, cap_pc, stat_pc,
                   enc_c, enc_todo, stop_pc, stop_c, stop_todo>>
    /\ UNCHANGED <<ringVars, poolVars, capVars, clipVars, encVars, pingVars, cbVars, altVars, slotVars, frameVars>>

\* ---------------------------------------------------------------- stop
\* what locking sessions_mutex_ does in a thread that already holds it
\* exclusively: std::shared_mutex is not recursive, the behaviour is
\* undefined; the thread blocks forever, or lock() throws
\* resource_deadlock_would_occur
RelockOutcomes == {"deadlocked", "threw"}

\* main(): the signal handler (and the 'q' key) call stop() at any time; the
\* destructor of the app runs when the control loop, while (app.streaming()),
\* has ended and main returns
MayCallStop(t) == t = "dtor" => ~streaming_

\* VRStreamerApp::stop, lines 131-134: streaming_.exchange(false)
stop_exchange(t) ==
    /\ stop_pc[t] = "idle"
    /\ MayCallStop(t)
    /\ IF streaming_
       THEN stop_pc' = [stop_pc EXCEPT ![t] = "set_flag"]
       ELSE stop_pc' = [stop_pc EXCEPT ![t] = "returned"]
    /\ streaming_' = FALSE
    /\ UNCHANGED <<stop_requested_, capture_queue_, frames_captured,
                   frames_encoded, stream, cap_pc, stat_pc, enc_pc, enc_frame,
                   enc_c, enc_todo, enc_call, stop_c, stop_todo>>
    /\ UNCHANGED <<ringVars, poolVars, srvVars, capVars, clipVars, encVars, pingVars, cbVars, altVars, slotVars, frameVars>>

\* VRStreamerApp::stop, line 136: stop_requested_.store(true)
stop_set_flag(t) ==
    /\ stop_pc[t] = "set_flag"
    /\ stop_requested_' = TRUE
    /\ stop_pc' = [stop_pc EXCEPT ![t] = "join_capture"]
    /\ UNCHANGED <<streaming_, capture_queue_, frames_captured,
                   frames_encoded, stream, cap_pc, stat_pc, enc_pc, enc_frame,
                   enc_c, enc_todo, enc_call, stop_c, stop_todo>>
    /\ UNCHANGED <<ringVars, poolVars, srvVars, capVars, clipVars, encVars, pingVars, cbVars, altVars, slotVars, frameVars>>

\* the order in which VRStreamerApp::stop joins and stops, lines 139-156
AfterJoinCapture == "join_encode"
AfterJoinEncode == "join_stats"
AfterJoinStats == "srv_exchange"

\* VRStreamerApp::stop, lines 139-142: capture_thread_.join()
stop_join_capture(t) ==
    /\ stop_pc[t] = "join_capture"
    /\ cap_pc = "exited"
    /\ stop_pc' = [stop_pc EXCEPT ![t] = AfterJoinCapture]
    /\ UNCHANGED <<streaming_, stop_requested_, capture_queue_, frames_captured,
                   frames_encoded, stream, cap_pc, stat_pc, enc_pc, enc_frame,
                   enc_c, enc_todo, enc_call, stop_c, stop_todo>>
    /\ UNCHANGED <<ringVars, poolVars, srvVars, capVars, clipVars, encVars, pingVars, cbVars, altVars, slotVars, frameVars>>

\* VRStreamerApp::stop, lines 143-146: encode_thread_.join()
stop_join_encode(t) ==
    /\ stop_pc[t] = "join_encode"
    /\ enc_pc = "exited"
    /\ stop_pc' = [stop_pc EXCEPT ![t] = AfterJoinEncode]
    /\ UNCHANGED <<streaming_, stop_requested_, capture_queue_, frames_captured,
                   frames_encoded, stream, cap_pc, stat_pc, enc_pc, enc_frame,
                   enc_c, enc_todo, enc_call, stop_c, stop_todo>>
    /\ UNCHANGED <<ringVars, poolVars, srvVars, capVars, clipVars, encVars, pingVars, cbVars, altVars, slotVars, frameVars>>

\* VRStreamerApp::stop, lines 147-150: stats_thread_.join()
stop_join_stats(t) ==
    /\ stop_pc[t] = "join_stats"
    /\ stat_pc = "exited"
    /\ stop_pc' = [stop_pc EXCEPT ![t] = AfterJoinStats]
    /\ UNCHANGED <<streaming_, stop_requested_, capture_queue_, frames_captured,
                   frames_encoded, stream, cap_pc, stat_pc, enc_pc, enc_frame,
                   enc_c, enc_todo, enc_call, stop_c, stop_todo>>
    /\ UNCHANGED <<ringVars, poolVars, srvVars, capVars, clipVars, encVars, pingVars, cbVars, altVars, slotVars, frameVars>>

\* StreamingServer::stop, lines 296-299: running_.exchange(false)
server_stop_exchange(t) ==
    /\ stop_pc[t] = "srv_exchange"
    /\ IF running_
       THEN stop_pc' = [stop_pc EXCEPT ![t] = "srv_lock"]
       ELSE stop_pc' = [stop_pc EXCEPT ![t] = "returned"]
    /\ running_' = FALSE
    /\ UNCHANGED <<config_max_clients, source_frames, accepting, io_stopped, sessions_,
                   mtx_shared, mtx_unique, conn, ws_open, closing_, writing_,
                   write_queue_, current_write_, inflight, written, frames_sent, io_pc>>
    /\ UNCHANGED <<streaming_, stop_requested_, capture_queue_, frames_captured,
                   frames_encoded, stream, cap_pc, stat_pc, enc_pc, enc_frame,
                   enc_c, enc_todo, enc_call, stop_c, stop_todo>>
    /\ UNCHANGED <<ringVars, poolVars, capVars, clipVars, encVars, pingVars, cbVars, altVars, slotVars, frameVars>>

\* StreamingServer::stop, line 303: std::unique_lock lock(sessions_mutex_)
server_stop_lock(t) ==
    /\ stop_pc[t] = "srv_lock"
    /\ MutexFree
    /\ mtx_unique' = t
    /\ stop_todo' = [stop_todo EXCEPT ![t] = sessions_]
    /\ stop_pc' = [stop_pc EXCEPT ![t] = "srv_sessions"]
    /\ UNCHANGED <<config_max_clients, source_frames, running_, accepting, io_stopped, sessions_,
                   mtx_shared, conn, ws_open, closing_, writing_,
                   write_queue_, current_write_, inflight, written, frames_sent, io_pc>>
    /\ UNCHANGED <<streaming_, stop_requested_, capture_queue_, frames_captured,
                   frames_encoded, stream, cap_pc, stat_pc, enc_pc, enc_frame,
                   enc_c, enc_todo, enc_call, stop_c>>
    /\ UNCHANGED <<ringVars, poolVars, capVars, clipVars, encVars, pingVars, cbVars, altVars, slotVars, frameVars>>

\* StreamingServer::stop, lines 304-307: session->close() for a session c;
\* close(), lines 183-189: closing_.exchange(true), ws_.close
server_stop_close(t, c) ==
    /\ stop_pc[t] = "srv_sessions"
    /\ c \in stop_todo[t]
    /\ stop_c' = [stop_c EXCEPT ![t] = c]
    /\ IF CloseExchange(c)
       THEN /\ UNCHANGED <<closing_, ws_open>>
            /\ stop_todo' = [stop_todo EXCEPT ![t] = stop_todo[t] \ {c}]
            /\ stop_pc' = stop_pc
       ELSE /\ closing_' = [closing_ EXCEPT ![c] = TRUE]
            /\ ws_open' = [ws_open EXCEPT ![c] = FALSE]
            /\ stop_todo' = stop_todo
            /\ stop_pc' = [stop_pc EXCEPT ![t] = "srv_unregister"]
    /\ UNCHANGED <<config_max_clients, source_frames, running_, accepting, io_stopped, sessions_,
                   mtx_shared, mtx_unique, conn, writing_,
                   write_queue_, current_write_, inflight, written, frames_sent, io_pc>>
    /\ UNCHANGED <<streaming_, stop_requested_, capture_queue_, frames_captured,
                   frames_encoded, stream, cap_pc, stat_pc, enc_pc, enc_frame,
                   enc_c, enc_todo, enc_call>>
    /\ UNCHANGED <<ringVars, poolVars, capVars, clipVars, encVars, pingVars, cbVars, altVars, slotVars, frameVars>>

\* close(), line 191, called from StreamingServer::stop: unregister_session
\* (line 416) locks sessions_mutex_, which this thread holds since line 303
server_stop_unregister(t) ==
    /\ stop_pc[t] = "srv_unregister"
    /\ mtx_unique = t
    /\ \E outcome \in RelockOutcomes :
         /\ stop_pc' = [stop_pc EXCEPT ![t] = outcome]
         /\ mtx_unique' = IF outcome = "threw" THEN "none" ELSE mtx_unique
    /\ UNCHANGED <<config_max_clients, source_frames, running_, accepting, io_stopped, sessions_,
                   mtx_shared, conn, ws_open, closing_, writing_,
                   write_queue_, current_write_, inflight, written, frames_sent, io_pc>>
    /\ UNCHANGED thrRest
    /\ UNCHANGED <<ringVars, poolVars, capVars, clipVars, encVars, pingVars, cbVars, altVars, slotVars, frameVars>>

\* StreamingServer::stop, lines 308-309: sessions_.clear(), the lock is released
server_stop_clear(t) ==
    /\ stop_pc[t] = "srv_sessions"
    /\ stop_todo[t] = {}
    /\ sessions_' = {}
    /\ mtx_unique' = "none"
    /\ stop_pc' = [stop_pc EXCEPT ![t] = "srv_halt"]
    /\ UNCHANGED <<config_max_clients, source_frames, running_, accepting, io_stopped,
                   mtx_shared, conn, ws_open, closing_, writing_,
                   write_queue_, current_write_, inflight, written, frames_sent, io_pc>>
    /\ UNCHANGED thrRest
    /\ UNCHANGED <<ringVars, poolVars, capVars, clipVars, encVars, pingVars, cbVars, altVars, slotVars, frameVars>>

\* StreamingServer::stop, lines 312-316: acceptor_.close(), io_context_.stop()
server_stop_halt(t) ==
    /\ stop_pc[t] = "srv_halt"
    /\ accepting' = FALSE
    /\ io_stopped' = TRUE
    /\ stop_pc' = [stop_pc EXCEPT ![t] = "srv_join"]
    /\ UNCHANGED <<config_max_clients, source_frames, running_, sessions_,
                   mtx_shared, mtx_unique, conn, ws_open, closing_, writing_,
                   write_queue_, current_write_, inflight, written, frames_sent, io_pc>>
    /\ UNCHANGED thrRest
    /\ UNCHANGED <<ringVars, poolVars, capVars, clipVars, encVars, pingVars, cbVars, altVars, slotVars, frameVars>>

\* StreamingServer::stop, lines 319-326: the I/O threads are joined, which
\* waits for the handlers they are running; VRStreamerApp::stop returns
server_stop_join(t) ==
    /\ stop_pc[t] = "srv_join"
    /\ \A c \in Conns : io_pc[c] = "idle"
    /\ stop_pc' = [stop_pc EXCEPT ![t] = "returned"]
    /\ UNCHANGED thrRest
    /\ UNCHANGED <<ringVars, poolVars, srvVars, capVars, clipVars, encVars, pingVars, cbVars, altVars, slotVars, frameVars>>

\* the pipeline and the server while nobody calls stop()
ServerSteps ==
    \/ \E c \in Conns : server_on_accept(c)
    \/ \E c \in Conns : session_on_accept_fail(c)
    \/ \E c \in Conns : session_on_accept(c)
    \/ \E c \in Conns : on_read_closed(c)
    \/ \E c \in Conns : on_write_ok(c)
    \/ \E c \in Conns : on_write_error(c)
    \/ \E c \in Conns : io_do_write_closing(c)
    \/ \E c \in Conns : io_do_write_pop(c)
    \/ \E c \in Conns : io_do_write_clear(c)
    \/ \E c \in Conns : io_close_exchange(c)
    \/ \E c \in Conns : io_close_unregister(c)
    \/ encode_loop_check
    \/ encode_loop_pop
    \/ push_frame_lock
    \/ \E c \in Conns : send_frame_check(c)
    \/ send_frame_push
    \/ send_frame_cas
    \/ enc_do_write_closing
    \/ enc_do_write_pop
    \/ enc_do_write_clear
    \/ push_frame_unlock

ServerNext == ServerSteps \/ capture_loop

\* the same steps with the capture thread at the grain of the statistics
StatsNext == ServerSteps \/ capture_loop_push \/ capture_loop_stats

\* VRStreamerApp::stop() and the threads' exits
StopNext ==
    \/ stats_loop
    \/ \E t \in StopCallers : stop_exchange(t)
    \/ \E t \in StopCallers : stop_set_flag(t)
    \/ \E t \in StopCallers : stop_join_capture(t)
    \/ \E t \in StopCallers : stop_join_encode(t)
    \/ \E t \in StopCallers : stop_join_stats(t)
    \/ \E t \in StopCallers : server_stop_exchange(t)
    \/ \E t \in StopCallers : server_stop_lock(t)
    \/ \E t \in StopCallers : \E c \in Conns : server_stop_close(t, c)
    \/ \E t \in StopCallers : server_stop_unregister(t)
    \/ \E t \in StopCallers : server_stop_clear(t)
    \/ \E t \in StopCallers : server_stop_halt(t)
    \/ \E t \in StopCallers : server_stop_join(t)

(***************************************************************************)
(* DXGICapture and CaptureManager (dxgi_capture.cpp), and the part of      *)
(* VRStreamerApp::init / start that brings the application up.             *)
(*                                                                         *)
(* The platform is an input: platform_ok says whether DuplicateOutput      *)
(* succeeds now, and every call of AcquireNextFrame has one of the         *)
(* outcomes of AcquireOutcomes.  Each call of the interface is one step.   *)
(***************************************************************************)
MAX_RECOVERY_ATTEMPTS == 3

\* the indexes a caller may pass, and those EnumOutputs finds an output for
MonitorIndexes == {0, 1, 2}
Monitors == {0, 1}

\* AcquireNextFrame: a frame, DXGI_ERROR_WAIT_TIMEOUT, DXGI_ERROR_ACCESS_LOST,
\* or another failure
AcquireOutcomes == {"frame", "no_texture", "timeout", "access_lost", "failed"}

\* create_duplication(monitor_index), lines 195-269
create_duplication(monitor_index) == platform_ok /\ monitor_index \in Monitors

\* the state before VRStreamerApp::init: nothing is created, no thread runs
CapBoot ==
    /\ platform_ok \in BOOLEAN
    /\ initialized_ = FALSE
    /\ duplication_ = FALSE
    /\ frame_id_ = 0
    /\ recovery_attempts_ = 0
    /\ use_window_capture_ = FALSE
    /\ selected_window_ = "null"
    /\ delivered = <<>>
    /\ cap_ret = "none"
    /\ lost = FALSE
    /\ capture_ = FALSE
    /\ app_initialized_ = FALSE
    /\ fatal = {}
    /\ on_error_calls = 0
    /\ monitor_index_ = 0
    /\ target_window_ = "null"
    /\ configured_monitor = 0
    /\ frames_dropped = 0
    /\ cap_hr = "none"

\* the state after an init() and a start() that returned true
CapInit ==
    /\ platform_ok = TRUE
    /\ initialized_ = TRUE
    /\ duplication_ = TRUE
    /\ frame_id_ = 0
    /\ recovery_attempts_ = 0
    /\ use_window_capture_ = FALSE
    /\ selected_window_ = "null"
    /\ delivered = <<>>
    /\ cap_ret = "none"
    /\ lost = FALSE
    /\ capture_ = TRUE
    /\ app_initialized_ = TRUE
    /\ fatal = {}
    /\ on_error_calls = 0
    /\ monitor_index_ = 0
    /\ target_window_ = "null"
    /\ configured_monitor = 0
    /\ frames_dropped = 0
    /\ cap_hr = "none"

\* the display configuration changes: duplication becomes (un)available
platform_change ==
    /\ platform_ok' = ~platform_ok
    /\ UNCHANGED <<initialized_, duplication_, frame_id_, recovery_attempts_,
                   use_window_capture_, selected_window_, delivered, cap_ret, lost,
                   capture_, app_initialized_, fatal, on_error_calls,
                   tgtVars, frames_dropped, cap_hr>>
    /\ UNCHANGED <<ringVars, poolVars, appVars, clipVars, encVars, pingVars, cbVars, altVars, slotVars, frameVars>>

\* DXGICapture::init(monitor_index), lines 30-62: shutdown(), then the device,
\* the duplication and the staging texture; on success initialized_ = true and
\* frame_id_ = 0.  A failure leaves the state shutdown() made (lines 107-124).
\* target_window_ = nullptr (line 35) is set where init is called: init_window
\* overwrites it on success (line 92).
DXGICapture_init(monitor_index) ==
    /\ monitor_index_' = monitor_index
    /\ initialized_' = create_duplication(monitor_index)
    /\ duplication_' = create_duplication(monitor_index)
    /\ frame_id_' = IF create_duplication(monitor_index) THEN 0 ELSE frame_id_

\* DXGICapture::init_window(hwnd), lines 64-105: an invalid handle returns
\* false before anything is touched; otherwise init() on the window's monitor
init_window(is_window, monitor_index) ==
    IF is_window
    THEN /\ DXGICapture_init(monitor_index)
         /\ target_window_' = IF create_duplication(monitor_index) THEN "hwnd" ELSE "null"
    ELSE UNCHANGED <<initialized_, duplication_, frame_id_, monitor_index_, target_window_>>

\* VRStreamerApp::init, lines 19-86: a failure of capture_->init() is logged
\* and returns false; the result of set_monitor (line 41) is not looked at.
\* No path invokes on_error_.
VRStreamerApp_init(monitor_index) ==
    /\ ~app_initialized_
    /\ capture_' = TRUE
    /\ recovery_attempts_' = 0
    /\ selected_window_' = "null"
    /\ use_window_capture_' = FALSE
    /\ IF ~create_duplication(0)
       THEN /\ DXGICapture_init(0)
            /\ configured_monitor' = 0
            /\ app_initialized_' = FALSE
            /\ fatal' = fatal \cup {"init"}
       ELSE /\ DXGICapture_init(monitor_index)
            /\ configured_monitor' = monitor_index
            /\ app_initialized_' = TRUE
            /\ fatal' = fatal
    /\ target_window_' = "null"
    /\ frames_dropped' = 0
    /\ UNCHANGED <<platform_ok, delivered, cap_ret, lost, on_error_calls, cap_hr>>
    /\ UNCHANGED <<ringVars, poolVars, appVars, clipVars, encVars, pingVars, cbVars, altVars, slotVars, frameVars>>

\* VRStreamerApp::start, lines 88-127, with StreamingServer::start, lines
\* 241-292: a failed bind throws, start() logs and returns false; otherwise the
\* server runs and the three threads are started.  No path invokes on_error_.
VRStreamerApp_start(bind_ok) ==
    /\ app_initialized_
    /\ ~streaming_
    /\ stop_requested_' = FALSE
    /\ IF bind_ok
       THEN /\ running_' = TRUE
            /\ accepting' = TRUE
            /\ streaming_' = TRUE
            /\ cap_pc' = "loop"
            /\ stat_pc' = "loop"
            /\ enc_pc' = "loop"
            /\ fatal' = fatal
       ELSE /\ UNCHANGED <<running_, accepting, streaming_, cap_pc, stat_pc, enc_pc>>
            /\ fatal' = fatal \cup {"bind"}
    /\ UNCHANGED <<config_max_clients, source_frames, io_stopped, sessions_,
                   mtx_shared, mtx_unique, conn, ws_open, closing_, writing_,
                   write_queue_, current_write_, inflight, written, frames_sent, io_pc>>
    /\ UNCHANGED <<capture_queue_, frames_captured, frames_encoded, stream,
                   enc_frame, enc_c, enc_todo, enc_call, stop_pc, stop_c, stop_todo>>
    /\ UNCHANGED <<platform_ok, initialized_, duplication_, frame_id_, recovery_attempts_,
                   use_window_capture_, selected_window_, delivered, cap_ret, lost,
                   capture_, app_initialized_, on_error_calls,
                   tgtVars, frames_dropped, cap_hr>>
    /\ UNCHANGED <<ringVars, poolVars, clipVars, encVars, pingVars, cbVars, altVars, slotVars, frameVars>>

\* CaptureManager::set_monitor, lines 716-721 (VRStreamerApp::set_capture_monitor)
set_monitor(monitor_index) ==
    /\ capture_
    /\ use_window_capture_' = FALSE
    /\ selected_window_' = "null"
    /\ DXGICapture_init(monitor_index)
    /\ target_window_' = "null"
    /\ configured_monitor' = monitor_index
    /\ UNCHANGED <<platform_ok, recovery_attempts_, delivered, cap_ret, lost,
                   capture_, app_initialized_, fatal, on_error_calls,
                   frames_dropped, cap_hr>>
    /\ UNCHANGED <<ringVars, poolVars, appVars, clipVars, encVars, pingVars, cbVars, altVars, slotVars, frameVars>>

\* CaptureManager::set_window, lines 723-747 (VRStreamerApp::set_capture_window)
set_window(is_window, monitor_index) ==
    /\ capture_
    /\ use_window_capture_' = TRUE
    /\ selected_window_' = "hwnd"
    /\ init_window(is_window, monitor_index)
    /\ UNCHANGED <<platform_ok, recovery_attempts_, delivered, cap_ret, lost,
                   capture_, app_initialized_, fatal, on_error_calls,
                   configured_monitor, frames_dropped, cap_hr>>
    /\ UNCHANGED <<ringVars, poolVars, appVars, clipVars, encVars, pingVars, cbVars, altVars, slotVars, frameVars>>

\* DXGICapture::reinit_duplication, lines 297-309: the duplication is dropped
\* and created again on monitor_index_; whether it exists afterwards is the
\* result of create_duplication
reinit_duplication(monitor_index) == create_duplication(monitor_index)

\* DXGICapture::capture_frame, lines 311-395, on the source initialized on
\* monitor_index with duplication dup, counters id and dropped: the outcome hr
\* of AcquireNextFrame decides ("no_texture": the frame was acquired and the
\* query for its texture interface failed, lines 349-356)
capture_frame(hr, monitor_index, dup, id, dropped) ==
    IF ~dup
    THEN /\ duplication_' = FALSE
         /\ frame_id_' = id
         /\ frames_dropped' = dropped
         /\ cap_hr' = "none"
         /\ cap_ret' = "false"
         /\ UNCHANGED <<delivered, lost>>
    ELSE /\ duplication_' = IF hr = "access_lost" THEN reinit_duplication(monitor_index) ELSE TRUE
         /\ frame_id_' = IF hr = "frame" THEN id + 1 ELSE id
         /\ frames_dropped' = IF hr = "failed" THEN dropped + 1 ELSE dropped
         /\ cap_hr' = hr
         /\ delivered' = IF hr = "frame" THEN Append(delivered, id + 1) ELSE delivered
         /\ cap_ret' = IF hr = "frame" THEN "frame" ELSE "false"
         /\ lost' = IF hr = "frame" THEN FALSE ELSE (lost \/ hr = "access_lost")

\* CaptureManager::capture, line 769: no further recovery is attempted
RecoveryExhausted_early(attempts) == attempts > MAX_RECOVERY_ATTEMPTS
RecoveryExhausted(attempts) == attempts >= MAX_RECOVERY_ATTEMPTS

\* CaptureManager::capture, lines 764-793, called by capture_loop (line 187)
\* while the application streams: recovery when the capture is not
\* initialized, bounded by MAX_RECOVERY_ATTEMPTS, then capture_frame.  The
\* recovery runs init_window on the selected window (is_window: the handle is
\* still valid) or init(0); both reach an existing output.
capture(hr, is_window) ==
    /\ streaming_
    /\ Len(delivered) < MaxDelivered
    /\ hr = "failed" => frames_dropped < MaxDropped
    /\ IF initialized_
       THEN /\ capture_frame(hr, monitor_index_, duplication_, frame_id_, frames_dropped)
            /\ UNCHANGED <<initialized_, recovery_attempts_, fatal, monitor_index_,
                           target_window_>>
       ELSE IF RecoveryExhausted(recovery_attempts_)
       THEN /\ cap_ret' = "false"
            /\ cap_hr' = "none"
            /\ fatal' = fatal \cup {"capture"}
            /\ UNCHANGED <<initialized_, duplication_, frame_id_, recovery_attempts_,
                           delivered, lost, monitor_index_, target_window_, frames_dropped>>
       ELSE IF use_window_capture_ /\ selected_window_ # "null"
       THEN \E monitor_index \in Monitors :
             /\ IF is_window /\ create_duplication(monitor_index)
                THEN /\ monitor_index_' = monitor_index
                     /\ target_window_' = "hwnd"
                     /\ initialized_' = TRUE
                     /\ recovery_attempts_' = 0
                     /\ capture_frame(hr, monitor_index, TRUE, 0, frames_dropped)
                ELSE /\ init_window(is_window, monitor_index)
                     /\ recovery_attempts_' = recovery_attempts_ + 1
                     /\ cap_ret' = "false"
                     /\ cap_hr' = "none"
                     /\ UNCHANGED <<delivered, lost, frames_dropped>>
             /\ fatal' = fatal
       ELSE /\ monitor_index_' = 0
            /\ target_window_' = "null"
            /\ initialized_' = create_duplication(0)
            /\ IF create_duplication(0)
               THEN /\ recovery_attempts_' = 0
                    /\ capture_frame(hr, 0, TRUE, 0, frames_dropped)
               ELSE /\ recovery_attempts_' = recovery_attempts_ + 1
                    /\ duplication_' = FALSE
                    /\ cap_ret' = "false"
                    /\ cap_hr' = "none"
                    /\ UNCHANGED <<frame_id_, delivered, lost, frames_dropped>>
            /\ fatal' = fatal
    /\ UNCHANGED <<platform_ok, use_window_capture_, selected_window_,
                   capture_, app_initialized_, on_error_calls, configured_monitor>>
    /\ UNCHANGED <<ringVars, poolVars, appVars, clipVars, encVars, pingVars, cbVars, altVars, slotVars, frameVars>>

CaptureCall == \E hr \in AcquireOutcomes : \E is_window \in BOOLEAN : capture(hr, is_window)

CaptureNext ==
    \/ platform_change
    \/ \E monitor_index \in MonitorIndexes : VRStreamerApp_init(monitor_index)
    \/ \E bind_ok \in BOOLEAN : VRStreamerApp_start(bind_ok)
    \/ \E monitor_index \in MonitorIndexes : set_monitor(monitor_index)
    \/ \E is_window \in BOOLEAN : \E monitor_index \in Monitors :
            set_window(is_window, monitor_index)
    \/ \E hr \in AcquireOutcomes : \E is_window \in BOOLEAN : capture(hr, is_window)

(***************************************************************************)
(* DXGICapture::clip_to_window (dxgi_capture.cpp).  The window rectangle   *)
(* the platform reports is an input: any rectangle when the window is      *)
(* selected, and from one frame to the next the window is where it was or  *)
(* one pixel away.  i32 and u32 are integers of IntBits bits.              *)
(***************************************************************************)
MIN_CLIP == 10

\* static_cast<u32>(x) and the value of an i32 expression x
IntRange == Pow2(IntBits)
AsU32(x) == x % IntRange
AsI32(x) == IF 2 * AsU32(x) >= IntRange THEN AsU32(x) - IntRange ELSE AsU32(x)

Max(a, b) == IF a >= b THEN a ELSE b
Min(a, b) == IF a <= b THEN a ELSE b

\* the monitor: width_, height_ and monitor_rect_ (create_duplication, lines 238-245)
width_ == MonitorSize
height_ == MonitorSize
monitor_rect_ == [left |-> 0, top |-> 0, right |-> width_, bottom |-> height_]

\* the rectangles DwmGetWindowAttribute can report: not empty, each edge at
\* most MaxOutside outside the monitor
Edges == (0 - MaxOutside)..(MonitorSize + MaxOutside)
WindowRects ==
    {r \in [left : Edges, top : Edges, right : Edges, bottom : Edges] :
        r.left < r.right /\ r.top < r.bottom}

ClipInit ==
    /\ window_rect_ = [left |-> 0, top |-> 0, right |-> 0, bottom |-> 0]
    /\ clipped_width_ = 0
    /\ clipped_height_ = 0
    /\ clip_ret = "none"

\* the state after init_window, lines 92-97: window_rect_ is the rectangle
\* the platform reported for the selected window
ClipTracked ==
    /\ window_rect_ \in WindowRects
    /\ clipped_width_ = 0
    /\ clipped_height_ = 0
    /\ clip_ret = "none"

\* the rectangles update_window_rect can read when the last one was rect
Moved(rect) ==
    {[left |-> rect.left + dx, top |-> rect.top + dy,
      right |-> rect.right + dx, bottom |-> rect.bottom + dy] :
        dx \in {d \in {0 - 1, 0, 1} : rect.left + d \in Edges /\ rect.right + d \in Edges},
        dy \in {d \in {0 - 1, 0, 1} : rect.top + d \in Edges /\ rect.bottom + d \in Edges}}

\* lines 431-435 and 451-455: the window relative to the monitor, clamped
ClampedLeft(rect) == Max(0, AsI32(rect.left - monitor_rect_.left))
ClampedTop(rect) == Max(0, AsI32(rect.top - monitor_rect_.top))
ClampedRight(rect) == Min(AsI32(width_), AsI32(rect.right - monitor_rect_.left))
ClampedBottom(rect) == Min(AsI32(height_), AsI32(rect.bottom - monitor_rect_.top))

\* lines 457-459
ClippedWidth(rect) == AsU32(ClampedRight(rect) - ClampedLeft(rect))
ClippedHeight(rect) == AsU32(ClampedBottom(rect) - ClampedTop(rect))

\* lines 477-486: the rows the copy loop reads lie inside the mapped frame
CopyInside(rect) ==
    /\ ClampedLeft(rect) + ClippedWidth(rect) <= width_
    /\ ClampedTop(rect) + ClippedHeight(rect) <= height_

\* clip_to_window of a capture with a target window, lines 417-495;
\* is_window: update_window_rect finds the window (lines 395-415) and reads
\* rect.  A copy that reads outside the mapped frame is undefined: the call
\* returns true with the dimensions it computed, or the process faults.
ClipToWindow(is_window, rect) ==
    IF ~is_window
    THEN /\ clip_ret' = "false"
         /\ UNCHANGED <<window_rect_, clipped_width_, clipped_height_>>
    ELSE /\ window_rect_' = rect
         /\ clipped_width_' = ClippedWidth(rect)
         /\ clipped_height_' = ClippedHeight(rect)
         /\ clip_ret' \in
              IF clipped_width_' < MIN_CLIP \/ clipped_height_' < MIN_CLIP
              THEN {"false"}
              ELSE IF CopyInside(rect) THEN {"true"} ELSE {"true", "fault"}

clip_to_window(is_window, rect) ==
    /\ ClipToWindow(is_window, rect)
    /\ UNCHANGED <<ringVars, poolVars, appVars, capVars, encVars, pingVars, cbVars, altVars, slotVars, frameVars>>

ClipNext ==
    \/ \E rect \in Moved(window_rect_) : clip_to_window(TRUE, rect)
    \/ clip_to_window(FALSE, window_rect_)

(***************************************************************************)
(* VRFrameEncoder::encode and CPUStereoProcessor::process_scaled           *)
(* (stereo_processor.cpp), with the setters of VRStreamerApp that replace  *)
(* the encoder's configuration.  The f32 factors are hundredths; products  *)
(* and quotients are exact and a static_cast<u32> truncates.               *)
(***************************************************************************)
\* 1.0f: downscale_factor and eye_separation are hundredths in the model
Native == 100

Widths == 1..MaxWidth
Heights == 1..MaxHeight
DownscaleFactors == {10, 35, 50, 65, 80, Native}
EyeSeparations == {0, 3, 10}

\* EncoderConfig, config.hpp lines 31-57, with its default member values
DefaultEncoderConfig ==
    [jpeg_quality |-> 65, downscale_factor |-> 65,
     output_width |-> 0, output_height |-> 0,
     vr_enabled |-> TRUE, eye_separation |-> 3]

EncoderConfigs ==
    [jpeg_quality : {65}, downscale_factor : DownscaleFactors,
     output_width : {0, 6}, output_height : {0, 5},
     vr_enabled : BOOLEAN, eye_separation : EyeSeparations]

NoFrame == [width |-> 0, height |-> 0]
NoSample == [left |-> <<>>, right |-> <<>>, row |-> <<>>, called |-> FALSE]
NoJpeg == [width |-> 0, height |-> 0, quality |-> 0]

EncIdle(cfg) ==
    /\ config_encoder = cfg
    /\ config_ = cfg
    /\ config_version = 0
    /\ encode_pc = "idle"
    /\ frame_in = NoFrame
    /\ output_width = 0 /\ output_height = 0
    /\ encode_width = 0 /\ encode_height = 0
    /\ sampled = NoSample
    /\ compressed = NoJpeg
    /\ encode_reads = {}

EncInit == EncIdle(DefaultEncoderConfig)

PingInit == pings = [c \in Conns |-> 0]

\* static_cast<u32>(width * config_.downscale_factor)
Scaled(size, factor) == (size * factor) \div Native

\* (output_width / 2) * 2
EvenFloor_mut(n) == n
EvenFloor(n) == (n \div 2) * 2

\* encode, lines 384-392: the output dimensions from downscale_factor
encode_dims(width, height) ==
    /\ encode_pc = "idle"
    /\ frame_in' = [width |-> width, height |-> height]
    /\ output_width' = IF config_.downscale_factor < Native
                       THEN Scaled(width, config_.downscale_factor) ELSE width
    /\ output_height' = IF config_.downscale_factor < Native
                        THEN Scaled(height, config_.downscale_factor) ELSE height
    /\ encode_width' = 0 /\ encode_height' = 0
    /\ sampled' = NoSample
    /\ compressed' = NoJpeg
    /\ encode_reads' = {config_version}
    /\ encode_pc' = "override"
    /\ UNCHANGED <<config_encoder, config_, config_version>>
    /\ UNCHANGED <<ringVars, poolVars, appVars, capVars, clipVars, pingVars, cbVars, altVars, slotVars, frameVars>>

\* encode, lines 394-402: the override and the rounding to even dimensions
encode_override ==
    /\ encode_pc = "override"
    /\ IF config_.output_width > 0 /\ config_.output_height > 0
       THEN /\ output_width' = EvenFloor(config_.output_width)
            /\ output_height' = EvenFloor(config_.output_height)
       ELSE /\ output_width' = EvenFloor(output_width)
            /\ output_height' = EvenFloor(output_height)
    /\ encode_reads' = encode_reads \cup {config_version}
    /\ encode_pc' = "stereo"
    /\ UNCHANGED <<config_encoder, config_, config_version, frame_in,
                   encode_width, encode_height, sampled, compressed>>
    /\ UNCHANGED <<ringVars, poolVars, appVars, capVars, clipVars, pingVars, cbVars, altVars, slotVars, frameVars>>

\* process_scaled, line 47: static_cast<u32>(input_width * eye_separation)
separation_pixels(input_width, eye_separation) ==
    (input_width * eye_separation) \div Native

\* process_scaled, lines 64-70: static_cast<u32>(x * x_scale) with
\* x_scale = input_width / half_width, and the guarded std::min
LeftColumn(x, input_width, half_width, sep) ==
    LET src_x == (x * input_width) \div half_width
    IN  IF src_x + sep < input_width
        THEN Min(src_x, input_width - sep - 1)
        ELSE src_x

\* process_scaled, lines 84-85
RightColumn_mut(x, input_width, half_width, sep) ==
    (x * input_width) \div half_width + sep
RightColumn(x, input_width, half_width, sep) ==
    Min((x * input_width) \div half_width + sep, input_width - 1)

\* process_scaled, line 58: static_cast<u32>(y * y_scale)
SourceRow(y, input_height, out_height) == (y * input_height) \div out_height

\* process_scaled, lines 34-102: the source column of every output column of
\* the left and of the right half, and the source row of every output row
process_scaled(input_width, input_height, out_width, out_height, eye_separation) ==
    LET half_width == out_width \div 2
        sep == separation_pixels(input_width, eye_separation)
    IN  [left |-> [i \in 1..half_width |->
                     LeftColumn(i - 1, input_width, half_width, sep)],
         right |-> [i \in 1..half_width |->
                     RightColumn(i - 1, input_width, half_width, sep)],
         row |-> [j \in 1..(IF half_width = 0 THEN 0 ELSE out_height) |->
                     SourceRow(j - 1, input_height, out_height)],
         called |-> TRUE]

\* encode, lines 413-438: the stereo shaper when vr_enabled, and the frame
\* that goes to the compressor (result_pitch is output_width * 3)
encode_stereo ==
    /\ encode_pc = "stereo"
    /\ IF config_.vr_enabled
       THEN /\ sampled' = process_scaled(frame_in.width, frame_in.height,
                                         output_width, output_height,
                                         config_.eye_separation)
            /\ IF output_width * 3 > 0
               THEN encode_width' = output_width /\ encode_height' = output_height
               ELSE encode_width' = frame_in.width /\ encode_height' = frame_in.height
       ELSE /\ sampled' = NoSample
            /\ encode_width' = frame_in.width /\ encode_height' = frame_in.height
    /\ encode_reads' = encode_reads \cup {config_version}
    /\ encode_pc' = "jpeg"
    /\ UNCHANGED <<config_encoder, config_, config_version, frame_in,
                   output_width, output_height, compressed>>
    /\ UNCHANGED <<ringVars, poolVars, appVars, capVars, clipVars, pingVars, cbVars, altVars, slotVars, frameVars>>

\* encode, lines 443-450: jpeg_encoder_->encode with config_.jpeg_quality
encode_jpeg ==
    /\ encode_pc = "jpeg"
    /\ compressed' = [width |-> encode_width, height |-> encode_height,
                      quality |-> config_.jpeg_quality]
    /\ encode_reads' = encode_reads \cup {config_version}
    /\ encode_pc' = "idle"
    /\ UNCHANGED <<config_encoder, config_, config_version, frame_in,
                   output_width, output_height, encode_width, encode_height,
                   sampled>>
    /\ UNCHANGED <<ringVars, poolVars, appVars, capVars, clipVars, pingVars, cbVars, altVars, slotVars, frameVars>>

\* VRFrameEncoder::update_config, lines 463-466, called by the setters of
\* VRStreamerApp after they changed config_.encoder (no lock is taken)
update_config(config) ==
    /\ config_version < MaxUpdates
    /\ config_encoder' = config
    /\ config_' = config
    /\ config_version' = config_version + 1
    /\ UNCHANGED <<encode_pc, frame_in, output_width, output_height,
                   encode_width, encode_height, sampled, compressed, encode_reads>>
    /\ UNCHANGED <<ringVars, poolVars, appVars, capVars, clipVars, pingVars, cbVars, altVars, slotVars, frameVars>>

Clamp(v, lo, hi) == Max(lo, Min(v, hi))

\* VRStreamerApp::set_quality, lines 443-451
set_quality(quality) ==
    update_config([config_encoder EXCEPT !.jpeg_quality = Clamp(quality, 1, 100)])

\* VRStreamerApp::set_downscale, lines 453-461
set_downscale(factor) ==
    update_config([config_encoder EXCEPT !.downscale_factor = Clamp(factor, 10, Native)])

\* Config::apply_preset, config.hpp lines 127-167: jpeg_quality and
\* downscale_factor of the five presets
Presets == {<<40, 35>>, <<55, 50>>, <<70, 65>>, <<80, 80>>, <<95, Native>>}

\* VRStreamerApp::set_quality_preset, lines 433-441
set_quality_preset(preset) ==
    update_config([config_encoder EXCEPT !.jpeg_quality = preset[1],
                                         !.downscale_factor = preset[2]])

\* WebSocketSession::send_ping, lines 202-213.  No function of the program
\* calls it.
send_ping(c) ==
    /\ ~(closing_[c] \/ ~ws_open[c])
    /\ pings' = [pings EXCEPT ![c] = @ + 1]
    /\ UNCHANGED <<ringVars, poolVars, appVars, capVars, clipVars, encVars, cbVars, altVars, slotVars, frameVars>>

EncoderNext ==
    \/ \E width \in Widths : \E height \in Heights : encode_dims(width, height)
    \/ encode_override
    \/ encode_stereo
    \/ encode_jpeg

ReconfigNext ==
    \/ encode_dims(MaxWidth, MaxHeight)
    \/ encode_override
    \/ encode_stereo
    \/ encode_jpeg
    \/ \E quality \in {0, 200} : set_quality(quality)
    \/ \E factor \in {5, 50} : set_downscale(factor)
    \/ \E preset \in Presets : set_quality_preset(preset)
    \/ \E config \in {DefaultEncoderConfig} : update_config(config)

(***************************************************************************)
(* The client callbacks of StreamingServer                                 *)
(***************************************************************************)
CbInit == client_events = [c \in Conns |-> <<>>]

(***************************************************************************)
(* SPSCQueue<T, 2> used by one caller that alternates try_push and try_pop *)
(***************************************************************************)
\* MASK of SPSCQueue<T, 2>
MASK2 == 1

Items2 == 1..MaxItems

AltInit ==
    /\ queue2 = EmptyRing(MASK2)
    /\ alt_pc = "push"
    /\ alt_tail = 0 /\ alt_next = 0 /\ alt_head = 0
    /\ alt_in = NoItem /\ alt_out = NoItem
    /\ alt_ret = "none"

\* try_push, lines 70-78, on the ring of capacity 2
alt_try_push_check(item) ==
    /\ alt_pc = "push"
    /\ alt_in' = item
    /\ alt_tail' = queue2.tail
    /\ alt_next' = NextIndex(queue2.tail, MASK2)
    /\ IF QueueIsFull(NextIndex(queue2.tail, MASK2), queue2.head)
       THEN alt_pc' = "pop" /\ alt_ret' = "false"
       ELSE alt_pc' = "push_store" /\ alt_ret' = alt_ret
    /\ UNCHANGED <<queue2, alt_head, alt_out>>
    /\ UNCHANGED <<ringVars, poolVars, appVars, capVars, clipVars, encVars, pingVars, cbVars, slotVars, frameVars>>

\* try_push, lines 80-82
alt_try_push_store ==
    /\ alt_pc = "push_store"
    /\ queue2' = [queue2 EXCEPT !.storage[alt_tail] = alt_in, !.tail = alt_next]
    /\ alt_ret' = "true"
    /\ alt_pc' = "pop"
    /\ UNCHANGED <<alt_tail, alt_next, alt_head, alt_in, alt_out>>
    /\ UNCHANGED <<ringVars, poolVars, appVars, capVars, clipVars, encVars, pingVars, cbVars, slotVars, frameVars>>

\* try_pop, lines 91-96, on the ring of capacity 2
alt_try_pop_check ==
    /\ alt_pc = "pop"
    /\ alt_head' = queue2.head
    /\ IF QueueIsEmpty(queue2.head, queue2.tail)
       THEN alt_pc' = "push" /\ alt_ret' = "false"
       ELSE alt_pc' = "pop_take" /\ alt_ret' = alt_ret
    /\ UNCHANGED <<queue2, alt_tail, alt_next, alt_in, alt_out>>
    /\ UNCHANGED <<ringVars, poolVars, appVars, capVars, clipVars, encVars, pingVars, cbVars, slotVars, frameVars>>

\* try_pop, lines 98-100
alt_try_pop_take ==
    /\ alt_pc = "pop_take"
    /\ alt_out' = queue2.storage[alt_head]
    /\ queue2' = [queue2 EXCEPT !.storage[alt_head] = NoItem,
                                !.head = NextIndex(alt_head, MASK2)]
    /\ alt_ret' = "true"
    /\ alt_pc' = "push"
    /\ UNCHANGED <<alt_tail, alt_next, alt_head, alt_in>>
    /\ UNCHANGED <<ringVars, poolVars, appVars, capVars, clipVars, encVars, pingVars, cbVars, slotVars, frameVars>>

AlternateNext ==
    \/ \E item \in Items2 : alt_try_push_check(item)
    \/ alt_try_push_store
    \/ alt_try_pop_check
    \/ alt_try_pop_take

(***************************************************************************)
(* SPSCFrameQueue<T, N> (spsc_queue.hpp), the ring of pre-allocated slots  *)
(***************************************************************************)
Slots == 0..MASK
NoSlot == 0 - 1

SlotInit ==
    /\ slot_head_ = 0
    /\ slot_tail_ = 0
    /\ slots_ready = [i \in Slots |-> FALSE]
    /\ write_in_progress_ = FALSE
    /\ w_pc = "idle" /\ w_tail = 0 /\ w_slot = NoSlot
    /\ r_pc = "idle" /\ r_head = 0 /\ r_slot = NoSlot
    /\ committed = {}
    /\ slot_last = [op |-> "none", ret |-> NoSlot, busy |-> FALSE, full |-> FALSE]

slotShared == <<slot_head_, slot_tail_, slots_ready, write_in_progress_>>

\* begin_write, lines 183-198; the producer may still hold the slot of an
\* earlier begin_write it has not committed
begin_write ==
    /\ w_pc = "idle"
    /\ IF write_in_progress_
       THEN /\ slot_last' = [op |-> "begin_write", ret |-> NoSlot, busy |-> TRUE,
                             full |-> QueueIsFull(NextIndex(slot_tail_, MASK), slot_head_)]
            /\ UNCHANGED <<write_in_progress_, w_slot>>
       ELSE IF QueueIsFull(NextIndex(slot_tail_, MASK), slot_head_)
       THEN /\ slot_last' = [op |-> "begin_write", ret |-> NoSlot, busy |-> FALSE,
                             full |-> TRUE]
            /\ UNCHANGED <<write_in_progress_, w_slot>>
       ELSE /\ write_in_progress_' = TRUE
            /\ w_slot' = slot_tail_
            /\ slot_last' = [op |-> "begin_write", ret |-> slot_tail_, busy |-> FALSE,
                             full |-> FALSE]
    /\ UNCHANGED <<slot_head_, slot_tail_, slots_ready, w_pc, w_tail, r_pc, r_head, r_slot,
                   committed>>
    /\ UNCHANGED <<ringVars, poolVars, appVars, capVars, clipVars, encVars, pingVars, cbVars, altVars, frameVars>>

\* commit_write, lines 203-209: the early return, or the store to ready
commit_write_ready ==
    /\ w_pc = "idle"
    /\ IF ~write_in_progress_
       THEN /\ slot_last' = [op |-> "commit_write", ret |-> NoSlot, busy |-> FALSE,
                             full |-> FALSE]
            /\ UNCHANGED <<slots_ready, w_pc, w_tail, committed>>
       ELSE /\ w_tail' = slot_tail_
            /\ slots_ready' = [slots_ready EXCEPT ![slot_tail_] = TRUE]
            /\ committed' = committed \cup {slot_tail_}
            /\ w_pc' = "commit_tail"
            /\ slot_last' = [op |-> "commit_write", ret |-> slot_tail_, busy |-> TRUE,
                             full |-> FALSE]
    /\ UNCHANGED <<slot_head_, slot_tail_, write_in_progress_, w_slot, r_pc, r_head, r_slot>>
    /\ UNCHANGED <<ringVars, poolVars, appVars, capVars, clipVars, encVars, pingVars, cbVars, altVars, frameVars>>

\* commit_write, lines 210-211: the store to tail_, write_in_progress_ = false
commit_write_tail ==
    /\ w_pc = "commit_tail"
    /\ slot_tail_' = NextIndex(w_tail, MASK)
    /\ write_in_progress_' = FALSE
    /\ w_slot' = NoSlot
    /\ w_pc' = "idle"
    /\ UNCHANGED <<slot_head_, slots_ready, w_tail, r_pc, r_head, r_slot, committed, slot_last>>
    /\ UNCHANGED <<ringVars, poolVars, appVars, capVars, clipVars, encVars, pingVars, cbVars, altVars, frameVars>>

\* peek_read, lines 217-224: the loads of head_ and tail_
peek_read_tail ==
    /\ r_pc = "idle"
    /\ r_head' = slot_head_
    /\ IF QueueIsEmpty(slot_head_, slot_tail_)
       THEN /\ r_slot' = NoSlot
            /\ r_pc' = r_pc
       ELSE /\ r_slot' = r_slot
            /\ r_pc' = "peek_ready"
    /\ UNCHANGED <<slotShared, w_pc, w_tail, w_slot, committed, slot_last>>
    /\ UNCHANGED <<ringVars, poolVars, appVars, capVars, clipVars, encVars, pingVars, cbVars, altVars, frameVars>>

\* peek_read, lines 226-232: the load of ready
peek_read_ready ==
    /\ r_pc = "peek_ready"
    /\ r_slot' = IF slots_ready[r_head] THEN r_head ELSE NoSlot
    /\ r_pc' = "idle"
    /\ UNCHANGED <<slotShared, w_pc, w_tail, w_slot, r_head, committed, slot_last>>
    /\ UNCHANGED <<ringVars, poolVars, appVars, capVars, clipVars, encVars, pingVars, cbVars, altVars, frameVars>>

\* complete_read, lines 237-240, called by the reader for the slot peek_read
\* gave it: the store to ready
complete_read_ready ==
    /\ r_pc = "idle"
    /\ r_slot # NoSlot
    /\ r_head' = slot_head_
    /\ slots_ready' = [slots_ready EXCEPT ![slot_head_] = FALSE]
    /\ committed' = committed \ {slot_head_}
    /\ r_slot' = NoSlot
    /\ r_pc' = "complete_head"
    /\ UNCHANGED <<slot_head_, slot_tail_, write_in_progress_, w_pc, w_tail, w_slot, slot_last>>
    /\ UNCHANGED <<ringVars, poolVars, appVars, capVars, clipVars, encVars, pingVars, cbVars, altVars, frameVars>>

\* complete_read, line 241: the store to head_
complete_read_head ==
    /\ r_pc = "complete_head"
    /\ slot_head_' = NextIndex(r_head, MASK)
    /\ r_pc' = "idle"
    /\ UNCHANGED <<slot_tail_, slots_ready, write_in_progress_, w_pc, w_tail, w_slot,
                   r_head, r_slot, committed, slot_last>>
    /\ UNCHANGED <<ringVars, poolVars, appVars, capVars, clipVars, encVars, pingVars, cbVars, altVars, frameVars>>

SlotNext ==
    \/ begin_write
    \/ commit_write_ready
    \/ commit_write_tail
    \/ peek_read_tail
    \/ peek_read_ready
    \/ complete_read_ready
    \/ complete_read_head

(***************************************************************************)
(* One frame through capture_loop and encode_loop: the duplication's       *)
(* acquisition, the staging texture's mapping, the pooled buffer           *)
(***************************************************************************)
\* the buffer_size given to FrameBufferPool (VRStreamerApp::init, lines 58-60)
buffer_size_ == width_ * height_ * 4

\* mapped.RowPitch of the staging texture: the rows may be padded
RowPitches == {width_ * 4, width_ * 4 + 4}

\* windows the tracked window can be found at: inside the monitor, wholly to
\* the left of it, and too small
FrameRects ==
    {[left |-> 1, top |-> 1, right |-> MonitorSize - 1, bottom |-> MonitorSize - 1],
     [left |-> 0 - MaxOutside, top |-> 0, right |-> 0 - 1, bottom |-> MonitorSize],
     [left |-> 0, top |-> 0, right |-> MIN_CLIP - 1, bottom |-> MIN_CLIP - 1]}

\* CapturedFrame{}
NoCapturedFrame ==
    [gpu_texture |-> FALSE, cpu_data |-> FALSE, staging_texture |-> FALSE,
     width |-> 0, height |-> 0, pitch |-> 0]

\* Buffer() followed by allocate(cap), memory_pool.hpp lines 35-46
NewBuffer(cap) == [width |-> 0, height |-> 0, stride |-> 0, size |-> 0, capacity |-> cap]

\* Buffer::allocate(cap), lines 37-45
allocate(buf, cap) == [buf EXCEPT !.capacity = Max(buf.capacity, cap), !.size = 0]

\* Buffer::reset(), lines 47-54
reset(buf) == [buf EXCEPT !.size = 0, !.width = 0, !.height = 0, !.stride = 0]

FrameIdle ==
    /\ fl_pc = "capture"
    /\ frame = NoCapturedFrame
    /\ dup_held = FALSE
    /\ staging_mapped = FALSE
    /\ frame_seen = FALSE
    /\ releases = 0
    /\ misuse = {}
    /\ buffer = 0
    /\ buffers = [b \in Buffers |-> NewBuffer(IF b <= PoolSize THEN buffer_size_ ELSE 0)]
    /\ frame_pool_ = [i \in 1..PoolSize |-> i]
    /\ made = 1..PoolSize
    /\ el_pc = "pop"
    /\ enc_buffer = 0

\* the capture targets the monitor (windowed = FALSE) or a window, the
\* staging texture has the given row pitch and the duplication delivers the
\* given number of frames
FrameStart(windowed, pitch, count) ==
    /\ window_mode = windowed
    /\ row_pitch = pitch
    /\ frames_left = count
    /\ FrameIdle

FrameInit == FrameStart(FALSE, width_ * 4, 0)

frameCapture == <<frame, dup_held, staging_mapped, frame_seen, releases, misuse>>
framePool == <<buffers, frame_pool_, made>>
thrNoQueue == <<streaming_, stop_requested_, frames_captured, frames_encoded, stream,
                cap_pc, stat_pc, enc_pc, enc_frame, enc_c, enc_todo, enc_call,
                stop_pc, stop_c, stop_todo>>

\* capture_loop, lines 186-192: capture_->capture(frame, 16), which ends in
\* DXGICapture::capture_frame (dxgi_capture.cpp lines 311-393)
loop_capture(outcome) ==
    /\ fl_pc = "capture"
    /\ misuse' = misuse \cup (IF dup_held THEN {"AcquireNextFrame"} ELSE {})
    /\ IF outcome = "frame"
       THEN /\ frames_left > 0
            /\ frames_left' = frames_left - 1
            /\ dup_held' = TRUE
            /\ frame' = [frame EXCEPT !.gpu_texture = TRUE, !.width = width_,
                                      !.height = height_]
            /\ frame_seen' = TRUE
            /\ releases' = 0
            /\ fl_pc' = "copy"
       ELSE UNCHANGED <<dup_held, frame, frame_seen, releases, fl_pc, frames_left>>
    /\ UNCHANGED <<window_mode, row_pitch, staging_mapped, buffer, framePool, el_pc, enc_buffer>>
    /\ UNCHANGED <<ringVars, poolVars, appVars, capVars, clipVars, encVars, pingVars, cbVars, altVars, slotVars>>

\* capture_loop, lines 195-199: capture_->copy_to_cpu(frame), which is
\* DXGICapture::copy_to_cpu (dxgi_capture.cpp lines 497-536); map_ok: Map
\* succeeds; is_window and rect: what update_window_rect finds
loop_copy_to_cpu(map_ok, is_window, rect) ==
    /\ fl_pc = "copy"
    /\ IF ~frame.gpu_texture \/ ~map_ok
       THEN /\ fl_pc' = "copy_failed"
            /\ UNCHANGED <<frame, staging_mapped, misuse, clipVars>>
       ELSE IF ~window_mode
       THEN /\ frame' = [frame EXCEPT !.cpu_data = TRUE, !.pitch = row_pitch,
                                      !.staging_texture = TRUE]
            /\ staging_mapped' = TRUE
            /\ misuse' = misuse \cup (IF staging_mapped THEN {"Map"} ELSE {})
            /\ fl_pc' = "acquire"
            /\ UNCHANGED clipVars
       ELSE /\ ClipToWindow(is_window, rect)
            /\ misuse' = misuse \cup (IF staging_mapped THEN {"Map"} ELSE {})
            /\ IF clip_ret' = "false"
               THEN /\ frame' = [frame EXCEPT !.cpu_data = FALSE, !.pitch = row_pitch,
                                              !.staging_texture = TRUE]
                    /\ staging_mapped' = FALSE
                    /\ fl_pc' = "copy_failed"
               ELSE /\ frame' = [frame EXCEPT !.cpu_data = TRUE,
                                              !.staging_texture = TRUE,
                                              !.width = clipped_width_',
                                              !.height = clipped_height_',
                                              !.pitch = AsU32(clipped_width_' * 4)]
                    /\ staging_mapped' = TRUE
                    /\ fl_pc' = IF clip_ret' = "true" THEN "acquire" ELSE "fault"
    /\ UNCHANGED <<window_mode, row_pitch, frames_left, dup_held, frame_seen, releases, buffer, framePool,
                   el_pc, enc_buffer>>
    /\ UNCHANGED <<ringVars, poolVars, appVars, capVars, encVars, pingVars, cbVars, altVars, slotVars>>

\* DXGICapture::release_frame, dxgi_capture.cpp lines 538-556
release_frame_mut ==
    /\ frame' = [frame EXCEPT !.cpu_data = FALSE, !.gpu_texture = FALSE,
                              !.staging_texture = FALSE]
    /\ staging_mapped' = IF frame.staging_texture THEN FALSE ELSE staging_mapped
    /\ misuse' = misuse
          \cup (IF frame.staging_texture /\ ~staging_mapped THEN {"Unmap"} ELSE {})
          \cup (IF ~dup_held THEN {"ReleaseFrame"} ELSE {})
    /\ dup_held' = FALSE
    /\ releases' = Min(releases + 1, 2)
    /\ UNCHANGED frame_seen
release_frame ==
    /\ frame' = [frame EXCEPT !.cpu_data = FALSE, !.gpu_texture = FALSE,
                              !.staging_texture = FALSE]
    /\ staging_mapped' =
          IF frame.cpu_data /\ frame.staging_texture THEN FALSE ELSE staging_mapped
    /\ misuse' = misuse
          \cup (IF frame.cpu_data /\ frame.staging_texture /\ ~staging_mapped
                THEN {"Unmap"} ELSE {})
          \cup (IF ~dup_held THEN {"ReleaseFrame"} ELSE {})
    /\ dup_held' = FALSE
    /\ releases' = Min(releases + 1, 2)
    /\ UNCHANGED frame_seen

\* capture_loop, lines 197-198: release_frame after copy_to_cpu failed
loop_copy_failed ==
    /\ fl_pc = "copy_failed"
    /\ release_frame
    /\ fl_pc' = "capture"
    /\ UNCHANGED <<window_mode, row_pitch, frames_left, buffer, framePool, el_pc, enc_buffer>>
    /\ UNCHANGED <<ringVars, poolVars, appVars, capVars, clipVars, encVars, pingVars, cbVars, altVars, slotVars>>

\* the buffer make_shared gives acquire when the free list is empty
FreshBuffer == CHOOSE b \in Buffers \ made : \A c \in Buffers \ made : b <= c

\* capture_loop, lines 202-207: frame_pool_->acquire() (memory_pool.hpp lines
\* 75-89), which never returns null
loop_acquire_mut ==
    /\ fl_pc = "acquire"
    /\ IF frame_pool_ = <<>>
       THEN /\ Buffers \ made # {}
            /\ buffer' = FreshBuffer
            /\ made' = made \cup {FreshBuffer}
            /\ buffers' = [buffers EXCEPT ![FreshBuffer] = NewBuffer(buffer_size_)]
            /\ UNCHANGED frame_pool_
       ELSE /\ buffer' = frame_pool_[Len(frame_pool_)]
            /\ frame_pool_' = frame_pool_
            /\ buffers' = [buffers EXCEPT ![frame_pool_[Len(frame_pool_)]] = reset(@)]
            /\ UNCHANGED made
    /\ fl_pc' = "fill"
    /\ UNCHANGED <<window_mode, row_pitch, frames_left, frameCapture, el_pc, enc_buffer>>
    /\ UNCHANGED <<ringVars, poolVars, appVars, capVars, clipVars, encVars, pingVars, cbVars, altVars, slotVars>>
loop_acquire ==
    /\ fl_pc = "acquire"
    /\ IF frame_pool_ = <<>>
       THEN /\ Buffers \ made # {}
            /\ buffer' = FreshBuffer
            /\ made' = made \cup {FreshBuffer}
            /\ buffers' = [buffers EXCEPT ![FreshBuffer] = NewBuffer(buffer_size_)]
            /\ UNCHANGED frame_pool_
       ELSE /\ buffer' = frame_pool_[Len(frame_pool_)]
            /\ frame_pool_' = SubSeq(frame_pool_, 1, Len(frame_pool_) - 1)
            /\ buffers' = [buffers EXCEPT ![frame_pool_[Len(frame_pool_)]] = reset(@)]
            /\ UNCHANGED made
    /\ fl_pc' = "fill"
    /\ UNCHANGED <<window_mode, row_pitch, frames_left, frameCapture, el_pc, enc_buffer>>
    /\ UNCHANGED <<ringVars, poolVars, appVars, capVars, clipVars, encVars, pingVars, cbVars, altVars, slotVars>>

\* capture_loop, lines 210-223: the fields, allocate, size, memcpy
loop_fill ==
    /\ fl_pc = "fill"
    /\ buffers' = [buffers EXCEPT ![buffer] =
                      [allocate(@, frame.pitch * frame.height) EXCEPT
                          !.width = frame.width, !.height = frame.height,
                          !.stride = frame.pitch, !.size = frame.pitch * frame.height]]
    /\ fl_pc' = "release"
    /\ UNCHANGED <<window_mode, row_pitch, frames_left, frameCapture, buffer, frame_pool_, made,
                   el_pc, enc_buffer>>
    /\ UNCHANGED <<ringVars, poolVars, appVars, capVars, clipVars, encVars, pingVars, cbVars, altVars, slotVars>>

\* capture_loop, line 226: release_frame after the copy
loop_release_frame ==
    /\ fl_pc = "release"
    /\ release_frame
    /\ fl_pc' = "push"
    /\ UNCHANGED <<window_mode, row_pitch, frames_left, buffer, framePool, el_pc, enc_buffer>>
    /\ UNCHANGED <<ringVars, poolVars, appVars, capVars, clipVars, encVars, pingVars, cbVars, altVars, slotVars>>

\* FrameBufferPool::release(buf), memory_pool.hpp lines 94-105, on frame_pool_
pool_release(buf) ==
    IF ReleaseKeeps(Len(frame_pool_), PoolSize)
    THEN /\ buffers' = [buffers EXCEPT ![buf] = reset(@)]
         /\ frame_pool_' = Append(frame_pool_, buf)
         /\ UNCHANGED made
    ELSE /\ buffers' = [buffers EXCEPT ![buf] = NewBuffer(0)]
         /\ made' = made \ {buf}
         /\ UNCHANGED frame_pool_

\* capture_loop, lines 229-233: try_push(std::move(buffer)), and release of
\* the buffer when Q1 is full
loop_push ==
    /\ fl_pc = "push"
    /\ IF CanPush(capture_queue_, Q1_MASK)
       THEN /\ capture_queue_' = Pushed(capture_queue_, buffer, Q1_MASK)
            /\ UNCHANGED framePool
       ELSE /\ pool_release(buffer)
            /\ UNCHANGED capture_queue_
    /\ buffer' = 0
    /\ fl_pc' = "capture"
    /\ UNCHANGED <<window_mode, row_pitch, frames_left, frameCapture, el_pc, enc_buffer>>
    /\ UNCHANGED <<srvVars, thrNoQueue>>
    /\ UNCHANGED <<ringVars, poolVars, capVars, clipVars, encVars, pingVars, cbVars, altVars, slotVars>>

\* encode_loop, lines 271-281: try_pop(buffer)
loop_pop ==
    /\ el_pc = "pop"
    /\ fl_pc # "fault"
    /\ CanPop(capture_queue_)
    /\ enc_buffer' = Front(capture_queue_)
    /\ capture_queue_' = Popped(capture_queue_, Q1_MASK)
    /\ el_pc' = "encode"
    /\ UNCHANGED <<fl_pc, window_mode, row_pitch, frames_left, frameCapture, buffer, framePool>>
    /\ UNCHANGED <<srvVars, thrNoQueue>>
    /\ UNCHANGED <<ringVars, poolVars, capVars, clipVars, encVars, pingVars, cbVars, altVars, slotVars>>

\* encode_loop, lines 286-295: encode reads the buffer, then
\* frame_pool_->release(std::move(buffer))
loop_encode ==
    /\ el_pc = "encode"
    /\ fl_pc # "fault"
    /\ pool_release(enc_buffer)
    /\ enc_buffer' = 0
    /\ el_pc' = "pop"
    /\ UNCHANGED <<fl_pc, window_mode, row_pitch, frames_left, frameCapture, buffer>>
    /\ UNCHANGED <<ringVars, poolVars, appVars, capVars, clipVars, encVars, pingVars, cbVars, altVars, slotVars>>

FrameNext ==
    \/ \E outcome \in AcquireOutcomes : loop_capture(outcome)
    \/ \E map_ok \in BOOLEAN, is_window \in BOOLEAN, rect \in FrameRects :
          loop_copy_to_cpu(map_ok, is_window, rect)
    \/ loop_copy_failed
    \/ loop_acquire
    \/ loop_fill
    \/ loop_release_frame
    \/ loop_push
    \/ loop_pop
    \/ loop_encode

(***************************************************************************)
(* Specifications                                                          *)
(***************************************************************************)
Init == RingInit /\ PoolInit /\ AppInit /\ CapInit /\ ClipInit /\ EncInit /\ PingInit /\ FrameInit /\ SlotInit /\ AltInit /\ CbInit

InitIdle == Init /\ config_max_clients = 1 /\ source_frames = 0

SpecRing == InitIdle /\ [][RingNext]_vars

SpecPool == InitIdle /\ [][PoolNext]_vars

SpecPoolShared == InitIdle /\ [][PoolSharedNext]_vars

\* the pipeline and the server on a source of MaxFrames frames
InitServer ==
    Init /\ source_frames = MaxFrames /\ config_max_clients = Cardinality(Conns)
SpecServer == InitServer /\ [][ServerNext]_vars

\* the pipeline and the server with fewer places than connections
InitAccept ==
    Init /\ source_frames = MaxFrames /\ config_max_clients < Cardinality(Conns)
SpecAccept == InitAccept /\ [][ServerNext]_vars

\* the same with stop() called at any moment, on a source of MaxStopFrames
\* frames
InitApp ==
    Init /\ source_frames = MaxStopFrames /\ config_max_clients = Cardinality(Conns)
AppNext == ServerNext \/ StopNext
SpecApp == InitApp /\ [][AppNext]_vars

SpecStats == InitApp /\ [][StatsNext]_vars

\* VRFrameEncoder::encode on every frame size and configuration
InitEncoder ==
    /\ config_max_clients = 1 /\ source_frames = 0
    /\ RingInit /\ PoolInit /\ AppInit /\ CapInit /\ ClipInit /\ PingInit /\ FrameInit /\ SlotInit /\ AltInit /\ CbInit
    /\ \E cfg \in EncoderConfigs : EncIdle(cfg)
SpecEncoder == InitEncoder /\ [][EncoderNext]_vars

\* the encode thread while another thread changes the quality settings
SpecReconfig == InitIdle /\ [][ReconfigNext]_vars

\* the capture and encode threads with no client, on a source that delivers
\* more frames than capture_queue_ holds
InitOverrun ==
    Init /\ source_frames = QUEUE_SIZE /\ config_max_clients = Cardinality(Conns)
OverrunNext ==
    \/ capture_loop
    \/ encode_loop_check
    \/ encode_loop_pop
    \/ push_frame_lock
    \/ push_frame_unlock
SpecOverrun == InitOverrun /\ [][OverrunNext]_vars

\* bringing the application up, selecting the source and capturing
InitBoot == RingInit /\ PoolInit /\ AppBoot /\ CapBoot /\ ClipInit /\ EncInit /\ PingInit /\ FrameInit /\ SlotInit /\ AltInit /\ CbInit
SpecCapture == InitBoot /\ [][CaptureNext]_vars

\* the capture thread keeps calling capture (capture_loop, lines 182-192) and
\* the desktop keeps changing: a call that can return a frame eventually does
CaptureFairness == WF_vars(\E is_window \in BOOLEAN : capture("frame", is_window))
SpecCaptureFair == InitBoot /\ [][CaptureNext]_vars /\ CaptureFairness

\* a tracked-window capture: the window moves, each frame is clipped
InitClip ==
    /\ config_max_clients = 1 /\ source_frames = 0
    /\ RingInit /\ PoolInit /\ AppInit /\ CapInit /\ ClipTracked /\ EncInit /\ PingInit /\ FrameInit /\ SlotInit /\ AltInit /\ CbInit
SpecClip == InitClip /\ [][ClipNext]_vars

\* the pipeline and the server when every thread keeps running: the I/O
\* threads run the handlers that are ready (a handshake or a write completes
\* one way or the other), the capture and encode threads take their steps.
\* The peer's closing of a connection is not forced to happen.
ServerFairness ==
    /\ \A c \in Conns :
          WF_vars(\/ session_on_accept(c) \/ session_on_accept_fail(c)
                  \/ on_write_ok(c) \/ on_write_error(c)
                  \/ io_do_write_closing(c) \/ io_do_write_pop(c) \/ io_do_write_clear(c)
                  \/ io_close_exchange(c) \/ io_close_unregister(c))
    /\ WF_vars(capture_loop)
    /\ WF_vars(\/ encode_loop_check \/ encode_loop_pop \/ push_frame_lock
               \/ (\E c \in Conns : send_frame_check(c))
               \/ send_frame_push \/ send_frame_cas \/ enc_do_write_closing
               \/ enc_do_write_pop \/ enc_do_write_clear \/ push_frame_unlock)
SpecServerFair == InitApp /\ [][ServerNext]_vars /\ ServerFairness

\* one caller alternating try_push and try_pop on a ring of capacity 2
SpecAlternate == InitIdle /\ [][AlternateNext]_vars

\* a producer and a consumer on the ring of slots
SpecSlots == InitIdle /\ [][SlotNext]_vars

\* the capture and encode threads passing frames of a monitor or of a
\* tracked window from the duplication to the encoder
InitFrame ==
    /\ config_max_clients = 1 /\ source_frames = 0
    /\ RingInit /\ PoolInit /\ AppInit /\ CapInit /\ ClipInit /\ EncInit
    /\ PingInit /\ SlotInit /\ AltInit /\ CbInit
    /\ \E windowed \in BOOLEAN, pitch \in RowPitches :
          FrameStart(windowed, pitch, MaxFrames)
SpecFrame == InitFrame /\ [][FrameNext]_vars

\* the same threads on a monitor that delivers more frames than Q1 holds
InitBuffers ==
    /\ config_max_clients = 1 /\ source_frames = 0
    /\ RingInit /\ PoolInit /\ AppInit /\ CapInit /\ ClipInit /\ EncInit
    /\ PingInit /\ SlotInit /\ AltInit /\ CbInit
    /\ FrameStart(FALSE, width_ * 4, QUEUE_SIZE + 1)
SpecBuffers == InitBuffers /\ [][FrameNext]_vars

(***************************************************************************)
(* Properties                                                              *)
(***************************************************************************)
RECURSIVE IsSubSeq(_, _)
\* a is b with some of its elements left out
IsSubSeq(a, b) ==
    IF a = <<>> THEN TRUE
    ELSE IF b = <<>> THEN FALSE
    ELSE IF Head(a) = Head(b) THEN IsSubSeq(Tail(a), Tail(b))
    ELSE IsSubSeq(a, Tail(b))

IsPrefix(a, b) == Len(a) <= Len(b) /\ \A i \in 1..Len(a) : a[i] = b[i]

\* C1: in every reachable state of one producer and one consumer, the number
\* of try_push calls that returned true equals the number of try_pop calls
\* that returned true plus the number of items in the ring (size_approx).
C1_PushPopBalance == Len(pushed) = Len(popped) + size_approx

\* the ring is full after the indices wrapped around, and items were popped
C1_Witness ==
    /\ Len(pushed) > CAPACITY
    /\ Len(popped) >= 1
    /\ size_approx = MASK

\* C2: the items try_pop returned are, in order, a prefix of the items
\* try_push accepted: nothing is seen twice, skipped or reordered.
C2_FifoPrefix == IsPrefix(popped, pushed)

\* more items than the ring has slots went through it
C2_Witness == Len(popped) > CAPACITY /\ Len(pushed) > Len(popped)

\* C3: try_push returns false exactly when (tail + 1) mod N = head at its
\* load of head_, try_pop returns false exactly when tail = head at its load
\* of tail_, and the steps of a call that returns false leave head_, tail_
\* and storage_ as they are.
C3_FailConditions ==
    [][ /\ (p_pc = "check" /\ p_pc' # "check") =>
             /\ (p_ret' = "false") <=> ((tail_ + 1) % CAPACITY = head_)
             /\ (p_ret' = "false") => UNCHANGED <<head_, tail_, storage_>>
        /\ (c_pc = "check" /\ c_pc' # "check") =>
             /\ (c_ret' = "false") <=> (tail_ = head_)
             /\ (c_ret' = "false") => UNCHANGED <<head_, tail_, storage_>>
        /\ (p_pc = "idle" /\ p_pc' = "check") => UNCHANGED <<head_, tail_, storage_>>
        /\ (c_pc = "idle" /\ c_pc' = "check") => UNCHANGED <<head_, tail_, storage_>>
      ]_vars

\* try_pop failed on the empty ring and, later, try_push failed on the full one
C3_Witness == p_ret = "false" /\ c_ret = "false" /\ size_approx = MASK

\* C4: push_frame calls send_frame on every session of the registry; where
\* send_frame reaches try_push, the frame is enqueued on that session's ring
\* exactly when that ring is not full, a full ring drops the frame for that
\* session alone, and no other session's ring changes.
C4_FanOutIsolation ==
    [][ /\ (enc_pc = "sf_push" /\ enc_pc' # "sf_push") =>
             /\ \A d \in Conns \ {enc_c} : write_queue_'[d] = write_queue_[d]
             /\ IF SizeOf(write_queue_[enc_c], WQ_MASK) = WQ_MASK
                THEN /\ write_queue_'[enc_c] = write_queue_[enc_c]
                     /\ enc_c \in enc_call'.dropped
                ELSE /\ SizeOf(write_queue_'[enc_c], WQ_MASK)
                          = SizeOf(write_queue_[enc_c], WQ_MASK) + 1
                     /\ write_queue_'[enc_c].storage[write_queue_[enc_c].tail] = enc_frame
                     /\ write_queue_'[enc_c].head = write_queue_[enc_c].head
                     /\ enc_c \in enc_call'.queued
        /\ (enc_pc = "iter" /\ enc_pc' = "loop") => enc_call.offered = sessions_
      ]_vars

\* one push_frame dropped the frame for one session and queued it for another
C4_Witness ==
    /\ enc_pc = "iter" /\ enc_todo = {}
    /\ enc_call.dropped # {}
    /\ enc_call.queued # {}

\* C5: the frames handed to a client's async_write are, in order, a
\* subsequence of the frames push_frame was called with.
C5_ClientOrder == \A c \in Conns : IsSubSeq(written[c], stream)

\* a client that had a frame dropped got two frames written
C5_Witness ==
    \E c \in Conns : c \in enc_call.dropped /\ Len(written[c]) >= 2

\* C6: no session ever has two async_write calls whose handlers have not run.
C6_SingleWrite == \A c \in Conns : inflight[c] <= 1

\* send_frame is at its compare-exchange while a write of the session is in flight
C6_Witness ==
    /\ enc_pc = "sf_cas"
    /\ inflight[enc_c] = 1
    /\ writing_[enc_c]

\* C7: the registry never holds more than max_clients sessions (also when
\* connections arrive while earlier handshakes are pending).
C7_MaxClients == Cardinality(sessions_) <= config_max_clients

\* C8: a stop() that found the app streaming goes on to return: its thread
\* is never left blocked on, or thrown out by, the registry lock while it
\* closes the sessions.
C8_StopReturns == \A t \in StopCallers : stop_pc[t] \notin RelockOutcomes

\* C9: once a call of stop() has returned, or the server has been halted,
\* push_frame is not called any more.
C9_StopOrdering ==
    [][ (~running_ \/ \E t \in StopCallers : stop_pc[t] = "returned")
            => stream' = stream ]_vars

\* C10: free_count + in_use_count <= 2 * pool_size in every reachable state.
C10_PoolBound == free_count + in_use_count <= 2 * PoolSize

\* C11: acquire never hands out a buffer from the free list while a handle to
\* it is still held outside the pool (a holder may have copied its handle, or
\* released the buffer twice through two handles).
C11_PoolExclusivity ==
    [][ Len(free_buffers_') < Len(free_buffers_)
            => handles[free_buffers_[Len(free_buffers_)]] = 0 ]_vars

C13_DisconnectCleanup ==
    \A c \in Conns : (c \in sessions_ /\ ~ws_open[c]) ~> (c \notin sessions_)

\* C14: when an async write to a session fails, that session alone is closed
\* and taken out of the registry: the steps of its on_write and close() leave
\* every other session registered, open and with its ring and flags as they
\* were, and when its handler returns the failed session is closed and no
\* longer in the registry.
C14_WriteFailureIsolated ==
    [][ \A c \in Conns :
             /\ (c \in sessions_ /\ c \notin sessions_') =>
                   /\ sessions_' = sessions_ \ {c}
                   /\ closing_[c] /\ ~ws_open[c]
             /\ (/\ io_pc'[c] # io_pc[c]
                 /\ (io_pc[c] \in {"cl_exchange", "cl_unregister"} \/ io_pc'[c] = "cl_exchange")) =>
                   \A d \in Conns \ {c} :
                       /\ (d \in sessions_) = (d \in sessions_')
                       /\ closing_'[d] = closing_[d]
                       /\ ws_open'[d] = ws_open[d]
                       /\ write_queue_'[d] = write_queue_[d]
                       /\ writing_'[d] = writing_[d]
                       /\ inflight'[d] = inflight[d]
             /\ (io_pc[c] \in {"cl_exchange", "cl_unregister"} /\ io_pc'[c] = "idle") =>
                   /\ closing_'[c] /\ ~ws_open'[c]
                   /\ c \notin sessions_'
      ]_vars

\* a frame pushed after the failed session left the registry is queued for
\* the other session
C14_Witness ==
    \E c \in Conns : \E d \in Conns \ {c} :
        /\ closing_[c] /\ c \notin sessions_ /\ conn[c] = "up" /\ io_pc[c] = "idle"
        /\ d \in sessions_
        /\ enc_pc = "iter" /\ d \in enc_call.queued

\* the steps of the encode thread between taking and releasing the lock of
\* push_frame
PushFrameStep ==
    \/ \E c \in Conns : send_frame_check(c)
    \/ send_frame_push
    \/ send_frame_cas
    \/ enc_do_write_closing
    \/ enc_do_write_pop
    \/ enc_do_write_clear
    \/ push_frame_unlock

\* C15: inside push_frame the encode thread can always take its next step,
\* whatever the rings and in-flight writes of the sessions are, and it makes
\* at most one try_push attempt per session: a session whose frame was
\* dropped or queued is not tried again in the same push_frame.
C15_PushFrameNeverWaits ==
    /\ enc_pc \in {"iter", "sf_push", "sf_cas", "dw_closing", "dw_pop", "dw_clear"}
          => ENABLED PushFrameStep
    /\ enc_pc = "sf_push" => enc_c \notin (enc_call.queued \cup enc_call.dropped)
    /\ enc_call.queued \cap enc_call.dropped = {}
    /\ (enc_call.queued \cup enc_call.dropped) \subseteq enc_call.offered
    /\ enc_call.offered \cap enc_todo \subseteq (IF enc_c = "none" THEN {} ELSE {enc_c})

\* push_frame goes on to the next session after it dropped the frame for a
\* session whose ring is full and whose write is still in flight
C15_Witness ==
    \E c \in Conns :
        /\ enc_pc = "iter" /\ enc_todo # {}
        /\ c \in enc_call.dropped
        /\ inflight[c] = 1
        /\ SizeOf(write_queue_[c], WQ_MASK) = WQ_MASK

\* C17: at any point of any interleaving of the capture thread, the encode
\* thread and the write completions, frames_captured >= frames_encoded and
\* frames_encoded >= frames_sent of every client.  Each counter is incremented
\* after the hand-off it counts, so the next stage can count the frame first.
C17_CounterOrder ==
    /\ frames_captured >= frames_encoded
    /\ \A c \in Conns : frames_encoded >= frames_sent[c]

\* C16: the frame_id of every frame capture returned is strictly greater than
\* that of every frame returned before it, also across a re-initialization
\* (set_monitor, set_window, recovery).
C16_FrameIdsMonotonic ==
    \A i, j \in 1..Len(delivered) : i < j => delivered[i] < delivered[j]

\* C19: every condition that makes streaming impossible (init failure, failed
\* bind in start(), capture initialization failing after the retry bound) was
\* reported to on_error exactly once.
C19_ErrorReportedOnce == on_error_calls = Cardinality(fatal)

\* C20: after access was lost, once the platform permits duplication again
\* (and the capture stays initialized), a later capture call returns a frame,
\* also when the re-creation at the time of the loss failed.
C20_AccessLostRecovery ==
    (lost /\ platform_ok /\ initialized_) ~> (~lost \/ ~platform_ok \/ ~initialized_)

\* C18: for every window rectangle, also partly or wholly outside the
\* monitor, a frame clip_to_window lets through has clipped dimensions of at
\* least 10 that lie within the monitor's width and height.
C18_ClipWithinMonitor ==
    clip_ret = "true" =>
        /\ clipped_width_ >= MIN_CLIP /\ clipped_width_ <= width_
        /\ clipped_height_ >= MIN_CLIP /\ clipped_height_ <= height_

\* C21: a capture call that finds the source not initialized attempts a
\* re-initialization only while fewer than three attempts have failed in a
\* row: a failed attempt counts one and returns false, a successful one
\* resets the counter to zero, and with the bound reached the call returns
\* false and attempts nothing.
C21_RecoveryBound ==
    [][ (~initialized_ /\ CaptureCall) =>
            /\ recovery_attempts_ <= 3
            /\ IF recovery_attempts_ = 3
               THEN /\ ~initialized_' /\ cap_ret' = "false"
                    /\ UNCHANGED <<duplication_, frame_id_, recovery_attempts_>>
               ELSE IF initialized_'
               THEN recovery_attempts_' = 0
               ELSE recovery_attempts_' = recovery_attempts_ + 1 /\ cap_ret' = "false"
      ]_vars

\* the bound was reached and a call returned without an attempt although the
\* platform would have let one succeed
C21_Witness ==
    /\ ~initialized_ /\ recovery_attempts_ = 3 /\ "capture" \in fatal
    /\ platform_ok /\ cap_ret = "false"

\* C22: a recovery that re-initializes the source uses the last configured
\* target: the window last passed to set_window, or else the monitor index
\* last passed to set_monitor.
C22_RecoveryTarget ==
    [][ (~initialized_ /\ initialized_' /\ CaptureCall) =>
            IF use_window_capture_ /\ selected_window_ # "null"
            THEN target_window_' = selected_window_
            ELSE target_window_' = "null" /\ monitor_index_' = configured_monitor
      ]_vars

\* C23: a capture call that times out returns none and leaves frames_dropped
\* unchanged; a call that fails for a reason other than timeout or access lost
\* returns none and adds exactly one to frames_dropped; a successful call
\* leaves frames_dropped unchanged and counts one more captured frame.
C23_DropCounter ==
    [][ CaptureCall =>
            CASE cap_hr' = "timeout" ->
                    cap_ret' = "false" /\ frames_dropped' = frames_dropped
              [] cap_hr' \in {"failed", "no_texture"} ->
                    cap_ret' = "false" /\ frames_dropped' = frames_dropped + 1
              [] cap_hr' = "frame" ->
                    /\ frames_dropped' = frames_dropped
                    /\ Len(delivered') = Len(delivered) + 1
              [] OTHER -> TRUE
      ]_vars

\* C25: when Q1 is full the capture thread does not block: its iteration
\* completes, the frame is not enqueued, and a drop counter advances for the
\* dropped frame.
C25_QueueFullDrop ==
    [][ (capture_loop /\ ~stop_requested_ /\ ~CanPush(capture_queue_, Q1_MASK)) =>
            /\ capture_queue_' = capture_queue_
            /\ cap_pc' = "loop"
            /\ frames_dropped' = frames_dropped + 1
      ]_vars

\* C30: in every reachable state of the ring, full() is true exactly when
\* size_approx() is N - 1, that is when N - 1 items are stored.
C30_FullIffSize ==
    /\ full <=> (size_approx = CAPACITY - 1)
    /\ full <=> (Len(pushed) - Len(popped) = CAPACITY - 1)
C30_Witness ==
    /\ full /\ size_approx = CAPACITY - 1
    /\ Len(popped) > 0 /\ tail_ < head_

\* C24: while the setters run concurrently with the encode thread, every
\* field of the encoder config read during one encode call comes from the
\* same version of the config.
C24_ConsistentReads == Cardinality(encode_reads) <= 1

\* the output dimensions of the current encode call have been computed
DimsComputed ==
    encode_pc \in {"stereo", "jpeg"} \/ (encode_pc = "idle" /\ compressed # NoJpeg)
Overridden == config_.output_width > 0 /\ config_.output_height > 0
\* the largest even integer that is at most size * factor / Native
RoundDownEven(size, factor) ==
    CHOOSE e \in 0..size :
        e % 2 = 0 /\ e * Native <= size * factor /\ (e + 2) * Native > size * factor
\* e is an even integer nearest to size * factor / Native
NearestEven(e, size, factor) ==
    /\ e % 2 = 0
    /\ \A k \in 0..(size \div 2 + 1) :
          LET d1 == e * Native - size * factor
              d2 == 2 * k * Native - size * factor
          IN  Max(d1, -d1) <= Max(d2, -d2)

C27_DownscaledPayload ==
    (compressed # NoJpeg /\ ~config_.vr_enabled /\ ~Overridden
        /\ config_.downscale_factor < Native) =>
        /\ compressed.width = RoundDownEven(frame_in.width, config_.downscale_factor)
        /\ compressed.height = RoundDownEven(frame_in.height, config_.downscale_factor)

\* C28: the stereo shaper copies, for output column x of the left half, input
\* column min(floor(x * sx_scale), Wi - sep - 1), for column x of the right
\* half input column min(floor((x - Wo/2) * sx_scale) + sep, Wi - 1), and for
\* output row y input row floor(y * sy_scale), with sx_scale = Wi / (Wo/2),
\* sy_scale = Hi / Ho and sep = floor(Wi * eye_separation).
C28_StereoSampling ==
    sampled.called =>
        LET Wi == frame_in.width
            Hi == frame_in.height
            half == output_width \div 2
            sep == (Wi * config_.eye_separation) \div Native
        IN  /\ \A i \in DOMAIN sampled.left :
                  sampled.left[i] = Min(((i - 1) * Wi) \div half, Wi - sep - 1)
            /\ \A i \in DOMAIN sampled.right :
                  sampled.right[i] = Min(((i - 1) * Wi) \div half + sep, Wi - 1)
            /\ \A j \in DOMAIN sampled.row :
                  sampled.row[j] = ((j - 1) * Hi) \div output_height

\* C29: while the server runs, every open client is pinged at the
\* ping_interval cadence: a client that is open is eventually sent a ping,
\* unless it closes first.
C29_PingCadence ==
    \A c \in Conns :
        (running_ /\ ws_open[c] /\ ~closing_[c]) ~>
            (pings[c] > 0 \/ ~ws_open[c] \/ closing_[c])

\* the encode thread is inside send_frame or do_write of session c
EncodeInSession(c) == enc_c = c /\ enc_pc \notin {"loop", "pop", "push_lock", "iter"}

\* C35: no lost writer wake-up: there is no reachable quiescent state of an
\* open client in which its outbound ring is not empty, the writing flag is
\* false and no write is in flight.
C35_NoLostWakeup ==
    \A c \in Conns :
        (ws_open[c] /\ ~closing_[c] /\ io_pc[c] = "idle" /\ ~EncodeInSession(c)
            /\ CanPop(write_queue_[c]))
        => (writing_[c] \/ inflight[c] > 0)

\* the positions inside do_write, from its entry to the clearing of writing_
DoWritePcs == {"dw_closing", "dw_pop", "dw_clear"}
IoInDoWrite(c) == io_pc[c] \in DoWritePcs
EncInDoWrite(c) == enc_c = c /\ enc_pc \in DoWritePcs

\* C36: on each client's outbound ring at most one thread is inside do_write
\* (and so inside try_pop) at a time, and it holds the writing flag; the only
\* thread that pushes is the encode thread, inside send_frame.
C36_SpscDiscipline ==
    /\ [](\A c \in Conns :
             /\ ~(IoInDoWrite(c) /\ EncInDoWrite(c))
             /\ (IoInDoWrite(c) \/ EncInDoWrite(c)) => writing_[c])
    /\ [][ \A c \in Conns :
              /\ write_queue_'[c].tail # write_queue_[c].tail =>
                    (enc_pc = "sf_push" /\ enc_c = c)
              /\ write_queue_'[c].head # write_queue_[c].head =>
                    ((io_pc[c] = "dw_pop") # (enc_pc = "dw_pop" /\ enc_c = c))
        ]_vars
\* the encode thread is about to pop the ring of a client whose earlier
\* frames were popped by the I/O thread
C36_Witness ==
    \E c \in Conns :
        /\ EncInDoWrite(c) /\ enc_pc = "dw_pop" /\ CanPop(write_queue_[c])
        /\ frames_sent[c] > 1

\* C40: for every input size, even output size and eye_separation in
\* [0, 0.1], every source column the stereo shaper uses for either half lies
\* in [0, Wi - 1] and every source row lies in [0, Hi - 1].
C40_SamplesInBounds ==
    sampled.called =>
        /\ \A i \in DOMAIN sampled.left :
              sampled.left[i] >= 0 /\ sampled.left[i] <= frame_in.width - 1
        /\ \A i \in DOMAIN sampled.right :
              sampled.right[i] >= 0 /\ sampled.right[i] <= frame_in.width - 1
        /\ \A j \in DOMAIN sampled.row :
              sampled.row[j] >= 0 /\ sampled.row[j] <= frame_in.height - 1
\* a frame of the widest input, shifted by two pixels, whose right half
\* needed the clamp
C40_Witness ==
    /\ sampled.called /\ frame_in.width = MaxWidth
    /\ separation_pixels(frame_in.width, config_.eye_separation) = 2
    /\ \E i \in DOMAIN sampled.right :
          /\ sampled.right[i] = frame_in.width - 1
          /\ RightColumn_mut(i - 1, frame_in.width, output_width \div 2, 2)
                 > frame_in.width - 1
    /\ \E i \in DOMAIN sampled.right :
          /\ sampled.right[i] = frame_in.width - 1
          /\ ((i - 1) * frame_in.width) \div (output_width \div 2) + 2 > frame_in.width - 1

\* C34: the free list never holds more than 2 * pool_size buffers, and a
\* release made while it holds 2 * pool_size drops the buffer and leaves
\* free_count as it was.
C34_FreeListBound ==
    /\ [](free_count <= 2 * PoolSize)
    /\ [][ (pool_last'.op = "release" /\ free_count = 2 * PoolSize)
              => (free_buffers_' = free_buffers_ /\ ~pool_last'.kept) ]_vars
\* a buffer was just dropped by release because the free list was full
C34_Witness ==
    /\ pool_last.op = "release" /\ ~pool_last.kept
    /\ free_count = 2 * PoolSize /\ synthesized > PoolSize

\* C38: for every session the server's on_client_disconnected callback is
\* made at most once and only after on_client_connected, whatever the
\* interleaving of the handshake, push_frame, write errors and stop().
C38_DisconnectOnce ==
    \A c \in Conns :
        client_events[c] \in {<<>>, <<"connected">>, <<"connected", "disconnected">>}
\* a session was disconnected by a write error, a later write of the same
\* session failed too, and close() was entered again
C38_Witness ==
    \E c \in Conns :
        /\ client_events[c] = <<"connected", "disconnected">>
        /\ io_pc[c] = "cl_exchange"

\* C31: on a ring of capacity 2 used by strictly alternating try_push and
\* try_pop calls, at every moment every try_push so far has returned true and
\* every try_pop has returned true with the item the preceding try_push stored.
C31_AlternatingCalls ==
    /\ alt_ret # "false"
    /\ (alt_pc = "push" /\ alt_ret = "true") => (alt_out = alt_in /\ alt_out # NoItem)
    /\ (alt_pc = "push") => queue2.head = queue2.tail
\* try_pop has just returned an item taken from slot 1, so that the indices
\* have wrapped around, and it is not the first item
C31_Witness ==
    /\ alt_pc = "push" /\ alt_ret = "true"
    /\ queue2.head = 0 /\ queue2.tail = 0 /\ alt_head = MASK2
    /\ alt_out = MaxItems

\* slot i lies between head and tail (head included, tail excluded)
BetweenHeadAndTail(i) ==
    AndMask(i - slot_head_ + CAPACITY, MASK) < AndMask(slot_tail_ - slot_head_ + CAPACITY, MASK)
ReadyExactlyBetween == \A i \in Slots : slots_ready[i] <=> BetweenHeadAndTail(i)

\* C39: the reader of the ring of slots never holds an uncommitted slot:
\* peek_read returns a slot only after commit_write published it, begin_write
\* returns none when the ring is full or while an earlier begin_write is
\* uncommitted, commit_write without a begin_write changes nothing, and
\* whenever neither commit_write nor complete_read is between its two stores
\* the ready flag is set exactly for the slots between head and tail.
C39_SlotRing ==
    /\ [](r_slot # NoSlot =>
             (r_slot \in committed /\ r_slot # w_slot /\ slots_ready[r_slot]))
    /\ []((slot_last.op = "begin_write" /\ (slot_last.busy \/ slot_last.full))
             => slot_last.ret = NoSlot)
    /\ []((w_pc = "idle" /\ r_pc # "complete_head") => ReadyExactlyBetween)
    /\ [][ (slot_last'.op = "commit_write" /\ slot_last'.ret = NoSlot
               /\ slot_last' # slot_last)
              => UNCHANGED <<slotShared, w_slot, committed>> ]_vars
\* the reader holds a slot, the indices have wrapped around, and begin_write
\* has just returned none because the slot of the earlier begin_write is
\* not committed
C39_Witness ==
    /\ r_slot # NoSlot /\ slot_tail_ < slot_head_
    /\ write_in_progress_ /\ w_slot # NoSlot
    /\ slot_last.op = "begin_write" /\ slot_last.busy /\ slot_last.ret = NoSlot
\* C39 as stated: the ready flags mark exactly the slots between head and
\* tail in every state
C39_AsStated == ReadyExactlyBetween

\* the frames stored in Q1
QueuedFrames ==
    {buffers[capture_queue_.storage[i]] :
        i \in {j \in 0..Q1_MASK : capture_queue_.storage[j] # NoItem}}

Places(b) ==
    Cardinality({i \in 1..Len(frame_pool_) : frame_pool_[i] = b})
    + (IF buffer = b THEN 1 ELSE 0)
    + Cardinality({j \in 0..Q1_MASK : capture_queue_.storage[j] = b})
    + (IF enc_buffer = b THEN 1 ELSE 0)

\* C37: every buffer of the frame pool is in exactly one place (the free
\* list, the capture thread, Q1 or the encode thread), and the capture thread
\* never holds the buffer the encode thread is reading.
C37_BufferExclusivity ==
    /\ \A b \in made : Places(b) = 1
    /\ \A b \in Buffers \ made : Places(b) = 0
    /\ (buffer # 0 /\ enc_buffer # 0) => buffer # enc_buffer
\* Q1 is full, the encode thread reads a buffer and the capture thread fills
\* another one, which the pool had to make
C37_Witness ==
    /\ ~CanPush(capture_queue_, Q1_MASK)
    /\ el_pc = "encode" /\ enc_buffer # 0
    /\ fl_pc = "release" /\ buffer > PoolSize
    /\ frame_pool_ = <<>>

====
